---------------------------- MODULE Spec2Model ----------------------------
(***************************************************************************)
(* A model of the orchestration scripts of ReorderingSurvey2025:           *)
(*   - the multiplication kernel entry points (scripts/cusparse_operations *)
(*     .py, cucsrspmv.py, cucbrspmv.py, csrcusparse_multiply.py,           *)
(*     cusparse_spmm.py) with their GPU environment probe,                 *)
(*   - smat.run_smat_multiplication and its timing parser,                 *)
(*   - the multiply-stage CSV merge (scripts/update_csv_multiply.py),      *)
(*   - the bandwidth metric of scripts/csv_helper*.py.                     *)
(* Every component has its own specification (KernelSpec, SmatSpec,        *)
(* MergeSpec, MetricsSpec); the variables of the components that a         *)
(* specification does not run stay at their idle values.                   *)
(***************************************************************************)
EXTENDS Integers, Sequences, FiniteSets, TLC

VARIABLES
    \* ---- one run of a kernel main -------------------------------------
    kernel,        \* which script's main is running
    operation,     \* cusparse_operations' positional "operation" argument
    force_cpu,     \* the --force-cpu flag of the legacy kernels
    pc,            \* the position of main
    matrix,        \* what load_matrix returned: "unset", "loaded", "None"
    smi_outcome,   \* what the nvidia-smi subprocess did
    nvcc_outcome,  \* what the nvcc subprocess did
    cupy_outcome,  \* what the CuPy import / device test did
    gpu_info,      \* the dictionary detect_gpu_environment builds
    timing_ms,     \* main's local timing_ms (None or a timing)
    success,       \* main's local success
    stdout,        \* the TIMING_MS lines printed so far
    exit_code,     \* the process exit code (None while main runs)
    calls,         \* the perform_* operations called so far, in order
    attempts,      \* what each of these calls returned, in order
    \* ---- smat.run_smat_multiplication ---------------------------------
    smat_pc, smat_out, smat_outcome, smat_wall, smat_result,
    \* ---- update_csv_multiply.main -------------------------------------
    csv_file, merge_pc, merge_runs, merge_args, merge_sidecar, merge_exit,
    csv_before, merge_prog, merge_matrix, merge_repeat,
    \* ---- csv_helper.compute_bandwidth ---------------------------------
    mtx, bw_pc, bw_scipy, bw_graphblas, bw_standalone, bd_impl, bd,
    \* ---- reorder_matrix.apply_permutation ------------------------------
    perm_file, rtype, out_file, reorder_exit,
    \* ---- the pipeline coordinator (one invocation) --------------------
    pl_state, pl_ran, pl_exit, pl_artifacts,
    \* ---- the parameter set canonicalizer (two invocations) ------------
    canon_pc, params_a, params_b, token_a, token_b,
    \* ---- update_csv_multiply.parse_cusparse_results -------------------
    parse_pc, results_file, res_metrics

kernelVars == <<kernel, operation, force_cpu, pc, matrix, smi_outcome, nvcc_outcome,
                cupy_outcome, gpu_info, timing_ms, success, stdout, exit_code, calls,
                attempts>>
parseVars == <<parse_pc, results_file, res_metrics>>
canonVars == <<canon_pc, params_a, params_b, token_a, token_b, parseVars>>
pipelineVars == <<pl_state, pl_ran, pl_exit, pl_artifacts, canonVars>>
smatVars == <<smat_pc, smat_out, smat_outcome, smat_wall, smat_result, pipelineVars>>
histVars == <<csv_before, merge_prog, merge_matrix, merge_repeat>>
mergeVars == <<csv_file, merge_pc, merge_runs, merge_args, merge_sidecar, merge_exit, histVars>>
densityVars == <<bd_impl, bd>>
reorderVars == <<perm_file, rtype, out_file, reorder_exit>>
metricsVars == <<mtx, bw_pc, bw_scipy, bw_graphblas, bw_standalone, densityVars,
                 reorderVars>>
vars == <<kernelVars, smatVars, mergeVars, metricsVars>>

\* Python's None, and a present value, as sequences of length 0 and 1.
None == <<>>
Some(x) == <<x>>

\* No results file is being parsed.
ParseIdle ==
    /\ parse_pc = "idle"
    /\ results_file = None
    /\ res_metrics = None

(***************************************************************************)
(* Bounds of the model.                                                    *)
(***************************************************************************)
\* Timings returned by the perform_* operations, in thirds of a microsecond.
MaxTiming == 4

Timings == 0..MaxTiming

(***************************************************************************)
(* The GPU environment probe: detect_gpu_environment.                      *)
(***************************************************************************)
\* What subprocess.run(['nvidia-smi', '-L'], timeout=5) can do.
SmiOutcomes == {"ok_gpu", "ok_no_gpu", "nonzero", "timeout", "missing", "oserror"}
\* What subprocess.run(['nvcc', '--version'], timeout=5) can do.
NvccOutcomes == {"ok", "nonzero", "timeout", "missing", "oserror"}
\* What the CuPy block can do, apart from never returning.
CupyOutcomes == {"import_error", "device_error", "alloc_error", "ok"}

\* The exceptions the two subprocess checks catch:
\* (TimeoutExpired, CalledProcessError, FileNotFoundError).
CaughtBySubprocessCheck == {"timeout", "missing"}

\* The outcomes in which subprocess.run raises: TimeoutExpired,
\* FileNotFoundError, and PermissionError for a command that is found but
\* cannot be executed (any other OSError likewise).
SubprocessRunRaises == {"timeout", "missing", "oserror"}

\* Whether a subprocess check lets its exception escape.
SubprocessCheckRaises(o) == o \in SubprocessRunRaises \ CaughtBySubprocessCheck

\* gpu_info['nvidia_smi'] after the first check.
NvidiaSmiField(o) == o = "ok_gpu"

\* gpu_info['cuda_available'] after the second check.
CudaAvailableField(o) == o = "ok"

\* The mutated CuPy check: the flags are set right after the imports.
CupyFieldsSetAfterImport(o) == o # "import_error"

\* gpu_info['cupy_available'] and gpu_info['cusparse_available']: both are
\* set only after import cupy, import cupyx.scipy.sparse,
\* cp.cuda.Device(0).use() and cp.array([1, 2, 3]) all succeeded; ImportError
\* and every other Exception are swallowed.
CupyFields(o) == o = "ok"

InitialGpuInfo ==
    [cuda_available |-> FALSE, cusparse_available |-> FALSE,
     nvidia_smi |-> FALSE, cupy_available |-> FALSE]

\* The dictionary detect_smat_environment of smat.py starts from.
InitialSmatInfo ==
    [cuda_available |-> FALSE, nvidia_smi |-> FALSE,
     smat_binary |-> FALSE, binary_path |-> <<>>]

(***************************************************************************)
(* The kernel mains.                                                       *)
(***************************************************************************)
GpuOnlyKernels == {"cusparse_operations", "cucsrspmv", "cucbrspmv"}
FallbackKernels == {"csrcusparse_multiply", "cusparse_spmm"}
SmatKernels == {"smat"}
Kernels == GpuOnlyKernels \cup FallbackKernels \cup SmatKernels

Operations == {"csr_spmv", "csr_spmm", "bsr_spmv", "bsr_spmm"}

\* print("TIMING_MS:0")
TimingZeroLine == [literal_zero |-> TRUE, thousandths |-> 0]

\* f"{timing_ms:.3f}": the timing rounded to thousandths of a millisecond.
\* A timing t is t thirds of a microsecond, so no value lies on a tie.
Fmt3(t) == (t + 1) \div 3

\* print(f"TIMING_MS:{timing_ms:.3f}")
TimingLine(t) == [literal_zero |-> FALSE, thousandths |-> Fmt3(t)]

\* The perform_* function a GPU-only main calls.
GpuOperation(k, op) ==
    CASE k = "cusparse_operations" -> "perform_" \o op
      [] k = "cucsrspmv" -> "perform_csr_spmv"
      [] k = "cucbrspmv" -> "perform_bsr_spmv"
      [] k = "csrcusparse_multiply" -> "perform_csr_multiply_gpu"
      [] k = "cusparse_spmm" -> "perform_spmm_gpu"

\* The mutated fallback: the GPU function is called once more.
CpuOperationRetriesGpu(k) ==
    CASE k = "csrcusparse_multiply" -> "perform_csr_multiply_gpu"
      [] k = "cusparse_spmm" -> "perform_spmm_gpu"

\* The CPU function a legacy main falls back to.
CpuOperation(k) ==
    CASE k = "csrcusparse_multiply" -> "perform_csr_multiply_cpu"
      [] k = "cusparse_spmm" -> "perform_spmm_cpu"

\* What a perform_* function returns: (timing_ms, True), or (None, False)
\* when anything in its try block raised.
PerformResults ==
    {[timing |-> Some(t), success |-> TRUE] : t \in Timings}
        \cup {[timing |-> None, success |-> FALSE]}

KernelInit ==
    /\ kernel \in Kernels
    /\ operation \in IF kernel = "cusparse_operations" THEN Operations ELSE {"none"}
    /\ force_cpu \in IF kernel \in FallbackKernels THEN BOOLEAN ELSE {FALSE}
    /\ pc = "load"
    /\ matrix = "unset"
    /\ smi_outcome = "unset"
    /\ nvcc_outcome = "unset"
    /\ cupy_outcome = "unset"
    /\ gpu_info = IF kernel \in SmatKernels THEN InitialSmatInfo ELSE InitialGpuInfo
    /\ timing_ms = None
    /\ success = FALSE
    /\ stdout = <<>>
    /\ exit_code = None
    /\ calls = <<>>
    /\ attempts = <<>>

KernelIdle ==
    /\ kernel = "none"
    /\ operation = "none"
    /\ force_cpu = FALSE
    /\ pc = "idle"
    /\ matrix = "unset"
    /\ smi_outcome = "unset"
    /\ nvcc_outcome = "unset"
    /\ cupy_outcome = "unset"
    /\ gpu_info = InitialGpuInfo
    /\ timing_ms = None
    /\ success = FALSE
    /\ stdout = <<>>
    /\ exit_code = None
    /\ calls = <<>>
    /\ attempts = <<>>


\* The mutated start of main: the probe runs before the loaded matrix is
\* looked at.
KernelLoadProbesFirst ==
    /\ pc = "load"
    /\ \E loaded \in BOOLEAN :
         matrix' = IF loaded THEN "loaded" ELSE "None"
    /\ pc' = "probe_smi"
    /\ UNCHANGED <<kernel, operation, force_cpu, smi_outcome, nvcc_outcome,
                   cupy_outcome, gpu_info, timing_ms, success, stdout, exit_code,
                   calls, attempts>>
    /\ UNCHANGED <<smatVars, mergeVars, metricsVars>>

\* load_matrix and main's "if matrix is None" branch: a matrix that cannot
\* be read makes main print TIMING_MS:0 and return 1.
KernelLoad ==
    /\ pc = "load"
    /\ \E loaded \in BOOLEAN :
         IF loaded
         THEN /\ matrix' = "loaded"
              /\ pc' = "probe_smi"
              /\ UNCHANGED <<stdout, exit_code>>
         ELSE /\ matrix' = "None"
              /\ stdout' = Append(stdout, TimingZeroLine)
              /\ exit_code' = Some(1)
              /\ pc' = "done"
    /\ UNCHANGED <<kernel, operation, force_cpu, smi_outcome, nvcc_outcome,
                   cupy_outcome, gpu_info, timing_ms, success, calls, attempts>>
    /\ UNCHANGED <<smatVars, mergeVars, metricsVars>>

\* detect_gpu_environment, first check.  An exception the except clause does
\* not name leaves detect_gpu_environment and main: the interpreter prints a
\* traceback and the process exits with status 1, nothing on stdout.
ProbeNvidiaSmi ==
    /\ pc = "probe_smi"
    /\ \E o \in SmiOutcomes :
         /\ smi_outcome' = o
         /\ IF SubprocessCheckRaises(o)
            THEN /\ pc' = "crashed"
                 /\ exit_code' = Some(1)
                 /\ UNCHANGED gpu_info
            ELSE /\ gpu_info' = [gpu_info EXCEPT !.nvidia_smi = NvidiaSmiField(o)]
                 /\ pc' = "probe_nvcc"
                 /\ UNCHANGED exit_code
    /\ UNCHANGED <<kernel, operation, force_cpu, matrix, nvcc_outcome, cupy_outcome,
                   timing_ms, success, stdout, calls, attempts>>
    /\ UNCHANGED <<smatVars, mergeVars, metricsVars>>

\* detect_gpu_environment, second check.
ProbeNvcc ==
    /\ pc = "probe_nvcc"
    /\ \E o \in NvccOutcomes :
         /\ nvcc_outcome' = o
         /\ IF SubprocessCheckRaises(o)
            THEN /\ pc' = "crashed"
                 /\ exit_code' = Some(1)
                 /\ UNCHANGED gpu_info
            ELSE /\ gpu_info' = [gpu_info EXCEPT !.cuda_available = CudaAvailableField(o)]
                 /\ pc' = IF kernel \in SmatKernels THEN "probe_binary"
                                                   ELSE "probe_cupy"
                 /\ UNCHANGED exit_code
    /\ UNCHANGED <<kernel, operation, force_cpu, matrix, smi_outcome, cupy_outcome,
                   timing_ms, success, stdout, calls, attempts>>
    /\ UNCHANGED <<smatVars, mergeVars, metricsVars>>

\* detect_gpu_environment, third check, when the CuPy block comes back (with
\* or without an exception), and the return of gpu_info to main.
ProbeCupy ==
    /\ pc = "probe_cupy"
    /\ \E o \in CupyOutcomes :
         /\ cupy_outcome' = o
         /\ gpu_info' = [gpu_info EXCEPT !.cupy_available = CupyFields(o),
                                         !.cusparse_available = CupyFields(o)]
    /\ pc' = "dispatch"
    /\ UNCHANGED <<kernel, operation, force_cpu, matrix, smi_outcome, nvcc_outcome,
                   timing_ms, success, stdout, exit_code, calls, attempts>>
    /\ UNCHANGED <<smatVars, mergeVars, metricsVars>>

\* The third check when cp.cuda.Device(0).use() or cp.array does not come
\* back: the calls are made in-process and carry no timeout, so nothing
\* abandons them and main stays inside detect_gpu_environment.
ProbeCupyHangs ==
    /\ pc = "probe_cupy"
    /\ cupy_outcome' = "hang"
    /\ pc' = "probe_cupy_blocked"
    /\ UNCHANGED <<kernel, operation, force_cpu, matrix, smi_outcome, nvcc_outcome,
                   gpu_info, timing_ms, success, stdout, exit_code, calls, attempts>>
    /\ UNCHANGED <<smatVars, mergeVars, metricsVars>>

\* detect_smat_environment, third check: the first of the possible paths
\* that is an executable file, and the return of smat_info to main_smat.
ProbeSmatBinary ==
    /\ pc = "probe_binary"
    /\ \E found \in BOOLEAN :
         gpu_info' = [gpu_info EXCEPT !.smat_binary = found,
                                      !.binary_path = IF found THEN <<"hgemm">>
                                                               ELSE <<>>]
    /\ pc' = "dispatch"
    /\ UNCHANGED <<kernel, operation, force_cpu, matrix, smi_outcome, nvcc_outcome,
                   cupy_outcome, timing_ms, success, stdout, exit_code, calls,
                   attempts>>
    /\ UNCHANGED <<smatVars, mergeVars, metricsVars>>

\* The mutated guard: the wrong key of gpu_info is tested.
FailFastOnCudaKey(info) == ~info.cuda_available

\* The GPU-only mains' guard "if not gpu_info['cusparse_available']".
GpuOnlyFailsFast(info) == ~info.cusparse_available

\* The legacy mains' guard
\* "if not args.force_cpu and gpu_info['cusparse_available']".
GpuPathTaken(force, info) == ~force /\ info.cusparse_available

\* A GPU-only main after the probe: fail fast, or the one perform_* call.
KernelGpuOnlyDispatch ==
    /\ pc = "dispatch"
    /\ kernel \in GpuOnlyKernels
    /\ IF GpuOnlyFailsFast(gpu_info)
       THEN /\ stdout' = Append(stdout, TimingZeroLine)
            /\ exit_code' = Some(1)
            /\ pc' = "done"
            /\ UNCHANGED <<timing_ms, success, calls, attempts>>
       ELSE /\ \E r \in PerformResults :
                 /\ timing_ms' = r.timing
                 /\ success' = r.success
                 /\ attempts' = Append(attempts, r)
            /\ calls' = Append(calls, GpuOperation(kernel, operation))
            /\ pc' = "report"
            /\ UNCHANGED <<stdout, exit_code>>
    /\ UNCHANGED <<kernel, operation, force_cpu, matrix, smi_outcome, nvcc_outcome,
                   cupy_outcome, gpu_info>>
    /\ UNCHANGED <<smatVars, mergeVars, metricsVars>>

\* main_smat after the probe: TIMING_MS:0 and 1 without the hgemm binary,
\* the one call of run_smat_multiplication otherwise (which returns
\* (timing_ms, True), or (None, False) when the process failed, timed out or
\* anything raised).
KernelSmatDispatch ==
    /\ pc = "dispatch"
    /\ kernel \in SmatKernels
    /\ IF ~gpu_info.smat_binary
       THEN /\ stdout' = Append(stdout, TimingZeroLine)
            /\ exit_code' = Some(1)
            /\ pc' = "done"
            /\ UNCHANGED <<timing_ms, success, calls, attempts>>
       ELSE /\ \E r \in PerformResults :
                 /\ timing_ms' = r.timing
                 /\ success' = r.success
                 /\ attempts' = Append(attempts, r)
            /\ calls' = Append(calls, "run_smat_multiplication")
            /\ pc' = "report"
            /\ UNCHANGED <<stdout, exit_code>>
    /\ UNCHANGED <<kernel, operation, force_cpu, matrix, smi_outcome, nvcc_outcome,
                   cupy_outcome, gpu_info>>
    /\ UNCHANGED <<smatVars, mergeVars, metricsVars>>

\* A legacy main after the probe: the GPU attempt, when it is made.
KernelTryGpu ==
    /\ pc = "dispatch"
    /\ kernel \in FallbackKernels
    /\ IF GpuPathTaken(force_cpu, gpu_info)
       THEN /\ \E r \in PerformResults :
                 /\ timing_ms' = r.timing
                 /\ success' = r.success
                 /\ attempts' = Append(attempts, r)
            /\ calls' = Append(calls, GpuOperation(kernel, operation))
       ELSE UNCHANGED <<timing_ms, success, calls, attempts>>
    /\ pc' = "fallback"
    /\ UNCHANGED <<kernel, operation, force_cpu, matrix, smi_outcome, nvcc_outcome,
                   cupy_outcome, gpu_info, stdout, exit_code>>
    /\ UNCHANGED <<smatVars, mergeVars, metricsVars>>

\* A legacy main's "if not success": the CPU implementation.
KernelCpuFallback ==
    /\ pc = "fallback"
    /\ IF ~success
       THEN /\ \E r \in PerformResults :
                 /\ timing_ms' = r.timing
                 /\ success' = r.success
                 /\ attempts' = Append(attempts, r)
            /\ calls' = Append(calls, CpuOperation(kernel))
       ELSE UNCHANGED <<timing_ms, success, calls, attempts>>
    /\ pc' = "report"
    /\ UNCHANGED <<kernel, operation, force_cpu, matrix, smi_outcome, nvcc_outcome,
                   cupy_outcome, gpu_info, stdout, exit_code>>
    /\ UNCHANGED <<smatVars, mergeVars, metricsVars>>

\* The end of every main: "if success and timing_ms is not None".
KernelReport ==
    /\ pc = "report"
    /\ IF success /\ timing_ms # None
       THEN /\ stdout' = Append(stdout, TimingLine(timing_ms[1]))
            /\ exit_code' = Some(0)
       ELSE /\ stdout' = Append(stdout, TimingZeroLine)
            /\ exit_code' = Some(1)
    /\ pc' = "done"
    /\ UNCHANGED <<kernel, operation, force_cpu, matrix, smi_outcome, nvcc_outcome,
                   cupy_outcome, gpu_info, timing_ms, success, calls, attempts>>
    /\ UNCHANGED <<smatVars, mergeVars, metricsVars>>

KernelNext ==
    \/ KernelLoad
    \/ ProbeNvidiaSmi
    \/ ProbeNvcc
    \/ ProbeCupy
    \/ ProbeCupyHangs
    \/ ProbeSmatBinary
    \/ KernelGpuOnlyDispatch
    \/ KernelSmatDispatch
    \/ KernelTryGpu
    \/ KernelCpuFallback
    \/ KernelReport

\* The positions of main inside detect_gpu_environment.
InsideProbe == pc \in {"probe_smi", "probe_nvcc", "probe_cupy", "probe_cupy_blocked"}

\* detect_gpu_environment has returned gpu_info to main.
ProbeReturned == pc \in {"dispatch", "fallback", "report", "done"} /\ cupy_outcome # "unset"


SmatIdle ==
    /\ smat_pc = "idle"
    /\ smat_out = <<>>
    /\ smat_outcome = "unset"
    /\ smat_wall = None
    /\ smat_result = None
    /\ pl_state = "idle"
    /\ pl_ran = <<>>
    /\ pl_exit = None
    /\ pl_artifacts = {}
    /\ canon_pc = "idle"
    /\ params_a = <<>>
    /\ params_b = <<>>
    /\ token_a = None
    /\ token_b = None
    /\ ParseIdle

MergeIdle ==
    /\ csv_file = None
    /\ merge_pc = "idle"
    /\ merge_runs = 0
    /\ merge_args = None
    /\ merge_sidecar = None
    /\ merge_exit = None
    /\ csv_before = None
    /\ merge_prog = "none"
    /\ merge_matrix = None
    /\ merge_repeat = FALSE

MetricsIdle ==
    /\ mtx = [nrows |-> 0, ncols |-> 0, entries |-> <<>>]
    /\ bw_pc = "idle"
    /\ bw_scipy = None
    /\ bw_graphblas = None
    /\ bw_standalone = None
    /\ bd_impl = "none"
    /\ bd = None
    /\ perm_file = None
    /\ rtype = "none"
    /\ out_file = None
    /\ reorder_exit = None

KernelSpecInit == KernelInit /\ SmatIdle /\ MergeIdle /\ MetricsIdle

KernelSpec == KernelSpecInit /\ [][KernelNext]_vars

(***************************************************************************)
(* Properties of the kernel mains and of the probe, checked under          *)
(* KernelSpec.                                                             *)
(***************************************************************************)
Range(f) == {f[i] : i \in DOMAIN f}

\* C1: in a GPU-only kernel main (cusparse_operations.main with any of the
\* four operations, main_csr_spmv, main_bsr_spmv), once the probe has
\* reported cusparse_available == False no perform_* operation is ever
\* called, main never reaches the reporting of an operation's result, and
\* when the run has ended it has returned 1 and printed exactly TIMING_MS:0.
C1_GpuOnlyFailsFastWithoutGpu ==
    (kernel \in GpuOnlyKernels /\ ProbeReturned /\ ~gpu_info.cusparse_available) =>
        /\ calls = <<>>
        /\ pc \in {"dispatch", "done"}
        /\ exit_code # Some(0)
        /\ pc = "done" => (exit_code = Some(1) /\ stdout = <<TimingZeroLine>>)

\* A GPU-only run that ended without a usable GPU although nvidia-smi and
\* nvcc both answered.
C1_Witness ==
    /\ kernel = "cusparse_operations"
    /\ operation = "bsr_spmm"
    /\ pc = "done"
    /\ cupy_outcome = "alloc_error"
    /\ gpu_info.nvidia_smi
    /\ gpu_info.cuda_available
    /\ ~gpu_info.cusparse_available
    /\ exit_code = Some(1)

\* The GPU attempt of a legacy main was made and failed.
GpuAttemptFailed ==
    /\ GpuOperation(kernel, operation) \in Range(calls)
    /\ (Len(calls) > 1 \/ ~success)

\* C2: in a legacy kernel main (csrcusparse_multiply.main, cusparse_spmm.main)
\* that loaded its matrix and has ended, whenever the GPU path was not taken
\* (--force-cpu given, or the probe reported cusparse_available == False) or
\* the GPU attempt failed, the CPU operation was run, and when the CPU
\* operation succeeded the run returned 0 and printed one TIMING_MS line
\* with the CPU timing.
C2_LegacyKernelRunsCpuPath ==
    (/\ kernel \in FallbackKernels
     /\ matrix = "loaded"
     /\ exit_code # None
     /\ \/ force_cpu
        \/ (ProbeReturned /\ ~gpu_info.cusparse_available)
        \/ GpuAttemptFailed) =>
        /\ CpuOperation(kernel) \in Range(calls)
        /\ success => (exit_code = Some(0) /\ stdout = <<TimingLine(timing_ms[1])>>)

\* C3: detect_gpu_environment never raises, and in the dictionary it returns
\* the field of every check that failed is False.
C3_ProbeNeverRaises ==
    /\ pc # "crashed"
    /\ ProbeReturned =>
          /\ smi_outcome # "ok_gpu" => ~gpu_info.nvidia_smi
          /\ nvcc_outcome # "ok" => ~gpu_info.cuda_available
          /\ cupy_outcome # "ok" =>
                (~gpu_info.cupy_available /\ ~gpu_info.cusparse_available)

\* C4: in every dictionary detect_gpu_environment returns, cusparse_available
\* is True only if the library was imported, device 0 was selected and the
\* test array was allocated; a library that imports but whose device
\* selection or allocation fails gives cusparse_available == False and
\* cupy_available == False, whatever nvidia_smi and cuda_available are.
C4_CusparseNeedsDeviceAllocation ==
    ProbeReturned =>
        /\ gpu_info.cusparse_available => cupy_outcome = "ok"
        /\ cupy_outcome \in {"device_error", "alloc_error"} =>
              (~gpu_info.cusparse_available /\ ~gpu_info.cupy_available)

\* The probe returned on a host where nvidia-smi and nvcc answer and the
\* library imports, but the allocation on the device failed.
C4_Witness ==
    /\ ProbeReturned
    /\ cupy_outcome = "alloc_error"
    /\ gpu_info.nvidia_smi
    /\ gpu_info.cuda_available
    /\ ~gpu_info.cusparse_available
    /\ ~gpu_info.cupy_available

\* C5: detect_gpu_environment always terminates: while main is inside the
\* probe, whatever the external checks do, a next step is possible (the
\* check in progress returns, raises, or is abandoned by its timeout).
C5_EveryProbeCheckIsTimeBounded == InsideProbe => ENABLED KernelNext

(***************************************************************************)
(* smat.run_smat_multiplication.                                           *)
(*                                                                         *)
(* The standard output of the hgemm process is a sequence of tokens: words *)
(* (told apart by which of the substrings 'avg', 'time', 'ms' they hold),  *)
(* numbers, and newlines.  Spaces between tokens are implied.              *)
(***************************************************************************)
\* The longest standard output of the SMAT process, in tokens.
MaxOut == 5

AvgToken == [kind |-> "avg", val |-> 0]      \* e.g. "avg:"
TimeToken == [kind |-> "time", val |-> 0]    \* e.g. "time:"
MsToken == [kind |-> "ms", val |-> 0]        \* e.g. "ms"
NewLine == [kind |-> "nl", val |-> 0]        \* "\n"
NumberTokens == {[kind |-> "num", val |-> v] : v \in {1, 2}}
SmatTokens == {AvgToken, TimeToken, MsToken, NewLine} \cup NumberTokens

\* The wall-clock times (end_time - start_time) * 1000 of the model.
WallTimes == {2, 3}

\* How subprocess.run(cmd, timeout=300) can end: return code 0, another
\* return code, TimeoutExpired, or another exception (the binary cannot be
\* started).
SmatOutcomes == {"exit0", "nonzero", "timeout", "error"}

\* str.strip(): leading and trailing whitespace removed.
RECURSIVE StripLeft(_)
StripLeft(s) ==
    IF s # <<>> /\ Head(s) = NewLine THEN StripLeft(Tail(s)) ELSE s

RECURSIVE StripRight(_)
StripRight(s) ==
    IF s # <<>> /\ s[Len(s)] = NewLine
    THEN StripRight(SubSeq(s, 1, Len(s) - 1))
    ELSE s

Strip(s) == StripRight(StripLeft(s))

\* str.split('\n'): the lines, at least one.
RECURSIVE SplitLines(_)
SplitLines(s) ==
    LET breaks == {i \in 1..Len(s) : s[i] = NewLine}
    IN  IF breaks = {}
        THEN <<s>>
        ELSE LET i == CHOOSE b \in breaks : \A c \in breaks : b <= c
             IN  <<SubSeq(s, 1, i - 1)>> \o SplitLines(SubSeq(s, i + 1, Len(s)))

\* 'avg' in part.lower(), 'time' in part.lower(), 'ms' in part.lower().
HasAvg(tok) == tok.kind = "avg"
HasTime(tok) == tok.kind = "time"
HasMs(tok) == tok.kind = "ms"

\* float(parts[j]) does not raise ValueError.
IsFloat(tok) == tok.kind = "num"

\* "if 'avg' in line.lower() and ('ms' in line.lower() or 'time' in
\* line.lower())".
LineHasTimingPattern(line) ==
    /\ \E i \in 1..Len(line) : HasAvg(line[i])
    /\ \E i \in 1..Len(line) : HasMs(line[i]) \/ HasTime(line[i])

\* "for j in range(i+1, min(i+4, len(parts)))": the first token of the
\* window that float() accepts.  Indices here are 1-based: the window after
\* the token at position i is i+1 .. min(i+3, len).
RECURSIVE ScanWindow(_, _, _)
ScanWindow(parts, j, last) ==
    IF j > last THEN None
    ELSE IF IsFloat(parts[j]) THEN Some(parts[j].val)
    ELSE ScanWindow(parts, j + 1, last)

\* min(i+4, len(parts)) - 1, as a 1-based last index.
WindowEnd(i, n) == IF i + 3 < n THEN i + 3 ELSE n

\* "for i, part in enumerate(parts)": the first 'avg'/'time' token whose
\* window holds a number decides.
RECURSIVE ScanParts(_, _)
ScanParts(parts, i) ==
    IF i > Len(parts) THEN None
    ELSE IF HasAvg(parts[i]) \/ HasTime(parts[i])
         THEN LET found == ScanWindow(parts, i + 1, WindowEnd(i, Len(parts)))
              IN  IF found # None THEN found ELSE ScanParts(parts, i + 1)
         ELSE ScanParts(parts, i + 1)

\* "for line in output_lines": the first line that yields a timing decides.
RECURSIVE ScanLines(_, _)
ScanLines(lines, k) ==
    IF k > Len(lines) THEN None
    ELSE IF LineHasTimingPattern(lines[k])
         THEN LET found == ScanParts(lines[k], 1)
              IN  IF found # None THEN found ELSE ScanLines(lines, k + 1)
         ELSE ScanLines(lines, k + 1)

\* The timing parsed from the process's standard output, or None.
ParseSmatTiming(out) == ScanLines(SplitLines(Strip(out)), 1)

\* The mutated fallback: the wall-clock time overwrites a parsed timing.
RunSmatAlwaysWallClock(outcome, out, wall) ==
    IF outcome = "exit0"
    THEN [timing |-> Some(wall), success |-> TRUE]
    ELSE [timing |-> None, success |-> FALSE]

\* run_smat_multiplication's result (timing_ms, success).
RunSmatMultiplication(outcome, out, wall) ==
    IF outcome = "exit0"
    THEN LET parsed == ParseSmatTiming(out)
         IN  [timing |-> IF parsed = None THEN Some(wall) ELSE parsed,
              success |-> TRUE]
    ELSE [timing |-> None, success |-> FALSE]

SmatInit ==
    /\ smat_pc = "running"
    /\ smat_out = <<>>
    /\ smat_outcome = "unset"
    /\ smat_wall = None
    /\ smat_result = None
    /\ pl_state = "idle"
    /\ pl_ran = <<>>
    /\ pl_exit = None
    /\ pl_artifacts = {}
    /\ canon_pc = "idle"
    /\ params_a = <<>>
    /\ params_b = <<>>
    /\ token_a = None
    /\ token_b = None
    /\ ParseIdle

\* The SMAT process writes one more token to its standard output.
SmatWrites ==
    /\ smat_pc = "running"
    /\ Len(smat_out) < MaxOut
    /\ \E tok \in SmatTokens : smat_out' = Append(smat_out, tok)
    /\ UNCHANGED <<smat_pc, smat_outcome, smat_wall, smat_result, pipelineVars>>
    /\ UNCHANGED <<kernelVars, mergeVars, metricsVars>>

\* subprocess.run ends and run_smat_multiplication returns.  A process that
\* could not be started has written nothing.
SmatRunEnds ==
    /\ smat_pc = "running"
    /\ \E outcome \in SmatOutcomes, wall \in WallTimes :
         /\ outcome = "error" => smat_out = <<>>
         /\ smat_outcome' = outcome
         /\ smat_wall' = Some(wall)
         /\ smat_result' = RunSmatMultiplication(outcome, smat_out, wall)
    /\ smat_pc' = "returned"
    /\ UNCHANGED <<smat_out, pipelineVars>>
    /\ UNCHANGED <<kernelVars, mergeVars, metricsVars>>

SmatNext == SmatWrites \/ SmatRunEnds

SmatSpecInit == KernelIdle /\ SmatInit /\ MergeIdle /\ MetricsIdle

SmatSpec == SmatSpecInit /\ [][SmatNext]_vars

(***************************************************************************)
(* Properties of run_smat_multiplication, checked under SmatSpec.          *)
(***************************************************************************)
\* The lines of the output the SMAT process wrote.
SmatLines == SplitLines(Strip(smat_out))

\* Token j of a line is a number at most three tokens after token i, which
\* holds 'avg' or 'time'.
ReportsAt(line, i, j) ==
    /\ i \in 1..Len(line)
    /\ j \in 1..Len(line)
    /\ HasAvg(line[i]) \/ HasTime(line[i])
    /\ i < j /\ j <= i + 3
    /\ IsFloat(line[j])

\* A line that carries a self-reported timing.
LineReports(line) ==
    /\ LineHasTimingPattern(line)
    /\ \E i, j \in 1..Len(line) : ReportsAt(line, i, j)

SmatOutputReports == \E k \in 1..Len(SmatLines) : LineReports(SmatLines[k])

\* The self-reported timing: on the first line that carries one, the first
\* number after the first 'avg'/'time' token that has one in reach.
SmatReportedTiming ==
    LET k == CHOOSE x \in 1..Len(SmatLines) :
                 /\ LineReports(SmatLines[x])
                 /\ \A y \in 1..(x - 1) : ~LineReports(SmatLines[y])
        line == SmatLines[k]
        i == CHOOSE x \in 1..Len(line) :
                 /\ \E j \in 1..Len(line) : ReportsAt(line, x, j)
                 /\ \A y \in 1..(x - 1) : \A j \in 1..Len(line) : ~ReportsAt(line, y, j)
        j == CHOOSE x \in 1..Len(line) :
                 /\ ReportsAt(line, i, x)
                 /\ \A y \in 1..(x - 1) : ~ReportsAt(line, i, y)
    IN  line[j].val

\* C8: when the SMAT process exits 0 and its output carries a self-reported
\* timing, run_smat_multiplication returns that timing; it returns the
\* wall-clock time only when the process exits 0 and no timing can be
\* parsed; when the process exits nonzero or times out it returns
\* (None, False).
C8_SmatTimingPrecedence ==
    smat_pc = "returned" =>
        /\ (smat_outcome = "exit0" /\ SmatOutputReports) =>
              smat_result = [timing |-> Some(SmatReportedTiming), success |-> TRUE]
        /\ (smat_outcome = "exit0" /\ ~SmatOutputReports) =>
              smat_result = [timing |-> smat_wall, success |-> TRUE]
        /\ smat_outcome \in {"nonzero", "timeout"} =>
              smat_result = [timing |-> None, success |-> FALSE]

\* A run whose output reports 1 on its second line, after a first line that
\* reports nothing, while the wall clock measured 3.
C8_Witness ==
    /\ smat_pc = "returned"
    /\ smat_outcome = "exit0"
    /\ Len(SmatLines) = 2
    /\ ~LineReports(SmatLines[1])
    /\ SmatOutputReports
    /\ smat_wall = Some(3)
    /\ smat_result = [timing |-> Some(1), success |-> TRUE]

(***************************************************************************)
(* The multiply-stage merge: update_csv_multiply.py.                       *)
(*                                                                         *)
(* A CSV cell, and a value of the metrics dictionary, is NULL (pandas'     *)
(* NaN), a number or a text.  The results CSV is the list of its columns   *)
(* and its rows, each row a function from the columns to cells.            *)
(***************************************************************************)
Null == <<"null">>
Num(n) == <<"num", n>>
Str(t) == <<"str", t>>
IsNum(c) == c[1] = "num"

\* The results row the reorder stage and the metrics engine leave behind.
ReorderColumns ==
    <<"matrix_name", "reorder_tech", "reord_param_set", "reorder_time_ms",
      "bandwidth", "block_density", "exit_code", "timestamp">>

ReorderRow(param_set) ==
    [c \in Range(ReorderColumns) |->
        CASE c = "matrix_name" -> Str("matrix")
          [] c = "reorder_tech" -> Str("rcm")
          [] c = "reord_param_set" -> param_set
          [] c = "reorder_time_ms" -> Num(3)
          [] c = "bandwidth" -> Num(1)
          [] c = "block_density" -> Str("{4: 1.0}")
          [] c = "exit_code" -> Num(0)
          [] c = "timestamp" -> Str("t0")]

\* The mutated assignment: the column is appended also when the frame has it.
SetColumnAlwaysAppends(df, column, value) ==
    [columns |-> Append(df.columns, column),
     rows |-> [r \in DOMAIN df.rows |->
                  [c \in DOMAIN df.rows[r] \cup {column} |->
                      IF c = column THEN value ELSE df.rows[r][c]]]]

\* df[column] = value: every row gets the value; a new column goes last.
SetColumn(df, column, value) ==
    [columns |-> IF column \in Range(df.columns)
                 THEN df.columns
                 ELSE Append(df.columns, column),
     rows |-> [r \in DOMAIN df.rows |->
                  [c \in DOMAIN df.rows[r] \cup {column} |->
                      IF c = column THEN value ELSE df.rows[r][c]]]]

\* The mutated round trip: an empty text stays an empty text.
CsvCellKeepsEmptyText(c) == c

\* df.to_csv(csv, index=False) followed by the next pd.read_csv(csv): an
\* empty text is written as an empty field, which reads back as NaN.
CsvCell(c) == IF c = Str("") THEN Null ELSE c

ToCsv(df) ==
    [columns |-> df.columns,
     rows |-> [r \in DOMAIN df.rows |->
                  [c \in DOMAIN df.rows[r] |-> CsvCell(df.rows[r][c])]]]

\* The lines of a results sidecar file; a line is the list of its comma
\* separated fields.
AvgLine(v) == <<Str("avg_time_ms"), v>>
SidecarFiles ==
    { <<AvgLine(Num(5)), <<Str("gflops"), Num(7)>> >>,
      <<AvgLine(Num(5)), <<Str("nnz"), Num(4)>> >>,
      <<AvgLine(Num(0)), <<Str("nnz"), Num(4)>> >>,
      << <<Str("nnz"), Num(4)>> >>,
      << <<Str("no results")>> >> }

\* "key, value = line.strip().split(',', 1)" and float(value): the value is
\* the number when there is exactly one more field and it is numeric, and
\* the raw remainder of the line otherwise.
LineValue(line) ==
    IF Len(line) = 2 THEN line[2] ELSE <<"raw", Tail(line)>>

\* parse_cusparse_results on the lines of an existing file: the metrics
\* dictionary, as a function from the keys to the values; a later line
\* replaces an earlier one with the same key; lines without a comma are
\* skipped.
RECURSIVE ParseLines(_, _)
ParseLines(lines, metrics) ==
    IF lines = <<>> THEN metrics
    ELSE LET line == Head(lines)
         IN  IF Len(line) >= 2
             THEN ParseLines(Tail(lines),
                     [k \in DOMAIN metrics \cup {line[1][2]} |->
                         IF k = line[1][2] THEN LineValue(line) ELSE metrics[k]])
             ELSE ParseLines(Tail(lines), metrics)

EmptyMetrics == [k \in {} |-> Null]

\* parse_cusparse_results(results_file); sidecar is None for a file that does
\* not exist.
ParseCusparseResults(sidecar) ==
    IF sidecar = None THEN EmptyMetrics ELSE ParseLines(sidecar[1], EmptyMetrics)

\* metrics.get(key, default)
MetricsGet(metrics, key, default) ==
    IF key \in DOMAIN metrics THEN metrics[key] ELSE default

\* "if impl == 'cucsrspmm' and results_file and os.path.exists(results_file)"
SidecarUsed(args, sidecar) ==
    /\ args.impl = "cucsrspmm"
    /\ args.results_given
    /\ sidecar # None

\* The value written to mult_time_ms.
MultTimeMs(args, sidecar) ==
    LET metrics == ParseCusparseResults(sidecar)
    IN  IF SidecarUsed(args, sidecar) /\ "avg_time_ms" \in DOMAIN metrics
        THEN metrics["avg_time_ms"]
        ELSE Num(args.time_ms[1])

\* Whether the GFLOPS are derived from avg_time_ms and nnz.
GflopsDerived(metrics) ==
    /\ "gflops" \notin DOMAIN metrics
    /\ "avg_time_ms" \in DOMAIN metrics
    /\ "nnz" \in DOMAIN metrics

\* num_cols_B = metrics.get('num_cols_B', 64)
DefaultNumColsB == 64

\* Whether "(2.0 * nnz * num_cols_B) / (metrics['avg_time_ms'] * 1e6)"
\* raises: TypeError for an operand that is a text, ZeroDivisionError for
\* avg_time_ms == 0.
GflopsRaises(metrics) ==
    /\ GflopsDerived(metrics)
    /\ \/ ~IsNum(metrics["nnz"])
       \/ ~IsNum(MetricsGet(metrics, "num_cols_B", Num(DefaultNumColsB)))
       \/ ~IsNum(metrics["avg_time_ms"])
       \/ metrics["avg_time_ms"] = Num(0)

\* The derived GFLOPS, as the pair (2 * nnz * num_cols_B, avg_time_ms); the
\* constant factor 1e6 of the divisor is left out.
Gflops(metrics) ==
    <<"ratio",
      2 * metrics["nnz"][2] * MetricsGet(metrics, "num_cols_B", Num(DefaultNumColsB))[2],
      metrics["avg_time_ms"][2]>>

\* The keys stored in mult_metrics, in the order of the loop.
MultMetricsKeys == <<"nnz", "num_rows", "num_cols", "num_cols_B">>

\* ';'.join(mult_metrics): the "key:value" items of the keys present.
MultMetrics(metrics) ==
    LET present == SelectSeq(MultMetricsKeys, LAMBDA k : k \in DOMAIN metrics)
    IN  [i \in DOMAIN present |-> <<present[i], metrics[present[i]]>>]

\* The columns every completed run writes first.
BasicUpdate(df, args) ==
    SetColumn(SetColumn(SetColumn(SetColumn(df,
        "mult_type", Str(args.impl)),
        "mult_param_set", Str(args.param_set)),
        "exit_code", Num(args.status[1])),
        "timestamp", Str(args.timestamp))

\* The cuSPARSE branch after mult_time_ms: gflops and mult_metrics.
SidecarUpdate(df, metrics) ==
    LET withGflops ==
            IF "gflops" \in DOMAIN metrics
            THEN SetColumn(df, "gflops", metrics["gflops"])
            ELSE IF GflopsDerived(metrics)
                 THEN SetColumn(df, "gflops", Gflops(metrics))
                 ELSE df
    IN  IF MultMetrics(metrics) # <<>>
        THEN SetColumn(withGflops, "mult_metrics", <<"joined", MultMetrics(metrics)>>)
        ELSE withGflops

\* The mutated run: the frame is saved right after mult_time_ms is set,
\* before the GFLOPS are derived.
RunUpdateCsvMultiplySavesEarly(csv, args, sidecar) ==
    IF ~args.argc_ok \/ args.time_ms = None \/ args.status = None
       \/ csv.columns = <<>>
    THEN [csv |-> csv, exit |-> Some(1)]
    ELSE LET metrics == ParseCusparseResults(sidecar)
             basic == BasicUpdate(csv, args)
             timed == SetColumn(basic, "mult_time_ms", MultTimeMs(args, sidecar))
         IN  IF SidecarUsed(args, sidecar)
             THEN IF GflopsRaises(metrics)
                  THEN [csv |-> ToCsv(timed), exit |-> Some(1)]
                  ELSE [csv |-> ToCsv(SidecarUpdate(timed, metrics)), exit |-> Some(0)]
             ELSE [csv |-> ToCsv(timed), exit |-> Some(0)]

\* One run of update_csv_multiply.main on the CSV csv: the CSV it leaves on
\* disk and its exit status.  sys.exit(1) for too few arguments; an uncaught
\* ValueError (float(time_ms), int(status)), EmptyDataError (pd.read_csv of
\* a file without a header line, the frame of no columns), TypeError or
\* ZeroDivisionError ends the process with status 1 before df.to_csv is
\* reached.
RunUpdateCsvMultiply(csv, args, sidecar) ==
    IF ~args.argc_ok \/ args.time_ms = None \/ args.status = None
       \/ csv.columns = <<>>
    THEN [csv |-> csv, exit |-> Some(1)]
    ELSE LET metrics == ParseCusparseResults(sidecar)
             basic == BasicUpdate(csv, args)
             timed == SetColumn(basic, "mult_time_ms", MultTimeMs(args, sidecar))
         IN  IF SidecarUsed(args, sidecar)
             THEN IF GflopsRaises(metrics)
                  THEN [csv |-> csv, exit |-> Some(1)]
                  ELSE [csv |-> ToCsv(SidecarUpdate(timed, metrics)), exit |-> Some(0)]
             ELSE [csv |-> ToCsv(timed), exit |-> Some(0)]

\* The number of runs of the merge on one results CSV.
MaxMerges == 2

\* The command lines of the model.
MergeImpls == {"cucsrspmm", "smat"}
MergeParamSets == {"", "alpha=1.0"}
MergeTimestamps == {"t1"}
\* (float(time_ms), int(status)): None where the argument does not parse.
MergeTimeAndStatus ==
    {<<Some(10), Some(0)>>, <<Some(10), Some(1)>>, <<None, Some(0)>>, <<Some(10), None>>}

MergeArgs ==
    [argc_ok : {TRUE}, impl : MergeImpls, param_set : MergeParamSets,
     time_ms : {ts[1] : ts \in MergeTimeAndStatus},
     status : {ts[2] : ts \in MergeTimeAndStatus},
     timestamp : MergeTimestamps, results_given : BOOLEAN]
    \cup
    [argc_ok : {FALSE}, impl : {"cucsrspmm"}, param_set : {""},
     time_ms : {None}, status : {None}, timestamp : {"t1"}, results_given : {FALSE}]

MergeInit ==
    /\ \/ \E p \in {Null, Str("symmetric=true")} :
             csv_file = [columns |-> ReorderColumns, rows |-> <<ReorderRow(p)>>]
       \/ csv_file = [columns |-> <<>>, rows |-> <<>>]
    /\ merge_pc = "ready"
    /\ merge_runs = 0
    /\ merge_args = None
    /\ merge_sidecar = None
    /\ merge_exit = None
    /\ csv_before = None
    /\ merge_prog = "none"
    /\ merge_matrix = None
    /\ merge_repeat = FALSE

\* update_csv_multiply.py is run on the results CSV.
UpdateCsvMultiply ==
    /\ merge_pc \in {"ready", "ran"}
    /\ merge_runs < MaxMerges
    /\ merge_runs' = merge_runs + 1
    /\ \E args \in MergeArgs, sidecar \in {None} \cup {Some(f) : f \in SidecarFiles} :
         /\ <<args.time_ms, args.status>> \in MergeTimeAndStatus \cup {<<None, None>>}
         /\ ~args.results_given => sidecar = None
         /\ merge_args' = args
         /\ merge_sidecar' = sidecar
         /\ \E out \in {RunUpdateCsvMultiply(csv_file, args, sidecar)} :
              /\ csv_file' = out.csv
              /\ merge_exit' = out.exit
    /\ merge_pc' = "ran"
    /\ csv_before' = Some(csv_file)
    /\ UNCHANGED <<merge_prog, merge_matrix, merge_repeat>>
    /\ UNCHANGED <<kernelVars, smatVars, metricsVars>>

MergeNext == UpdateCsvMultiply

MergeSpecInit == KernelIdle /\ SmatIdle /\ MergeInit /\ MetricsIdle

MergeSpec == MergeSpecInit /\ [][MergeNext]_vars

(***************************************************************************)
(* Properties of the multiply-stage merge, checked under MergeSpec.        *)
(***************************************************************************)
\* The metrics of the sidecar file of the last run.
LastMetrics == ParseCusparseResults(merge_sidecar)

\* The last run was handed a sidecar file that holds an avg_time_ms entry.
SelfReportedTimePresent ==
    merge_sidecar # None /\ "avg_time_ms" \in DOMAIN LastMetrics

\* The mult_time_ms cell of the row on disk, NULL when there is no such
\* column.
MultTimeOnDisk ==
    IF "mult_time_ms" \in Range(csv_file.columns)
    THEN csv_file.rows[1]["mult_time_ms"]
    ELSE Null

\* C6: after a completed run of update_csv_multiply.main, mult_time_ms is the
\* self-reported avg_time_ms of the sidecar file when one is present, and
\* the caller-measured time_ms argument only when none is present.
C6_ReportedTimeTakesPrecedence ==
    (merge_pc = "ran" /\ merge_exit = Some(0)) =>
        MultTimeOnDisk = IF SelfReportedTimePresent
                         THEN LastMetrics["avg_time_ms"]
                         ELSE Num(merge_args.time_ms[1])

\* C7: for every impl name, a sidecar file with a numeric avg_time_ms handed
\* to a completed run of the merge decides mult_time_ms.
C7_SidecarRecognizedForEveryKernel ==
    (/\ merge_pc = "ran"
     /\ merge_exit = Some(0)
     /\ SelfReportedTimePresent
     /\ IsNum(LastMetrics["avg_time_ms"])) =>
        MultTimeOnDisk = LastMetrics["avg_time_ms"]

(***************************************************************************)
(* The structural metrics: compute_bandwidth of csv_helper.py, with and    *)
(* without GraphBLAS installed, and compute_bandwidth_graphblas of         *)
(* csv_helper_graphblas.py.                                                *)
(*                                                                         *)
(* A Matrix Market coordinate file is its size line and the list of its    *)
(* entries <<row, col>>, 1-based, in the order of the file, no coordinate  *)
(* twice.  Every index of the model is far below 2^31, so astype(np.int64) *)
(* keeps each index and the subtraction cannot wrap.                       *)
(***************************************************************************)
\* The largest number of rows and columns, and of entries, of a file built
\* entry by entry.
Dim == 3
MaxNnz == 3

\* The matrix file of test_graphblas_csv_helper.
TestMatrix ==
    [nrows |-> 4, ncols |-> 4,
     entries |-> << <<1, 1>>, <<1, 2>>, <<2, 2>>, <<3, 3>>, <<4, 3>>, <<4, 4>> >>]

\* scipy.io.mmread: a COO matrix whose row and col arrays hold the 0-based
\* coordinates in the order of the file; nnz is the number of stored entries.
MmreadSciPy(file) ==
    [kind |-> "scipy",
     shape |-> <<file.nrows, file.ncols>>,
     row |-> [i \in DOMAIN file.entries |-> file.entries[i][1] - 1],
     col |-> [i \in DOMAIN file.entries |-> file.entries[i][2] - 1],
     nnz |-> Len(file.entries)]

\* graphblas.io.mmread: a GraphBLAS Matrix, which stores the set of its
\* 0-based coordinates; nvals is the number of stored entries.
MmreadGraphBLAS(file) ==
    LET stored == {<<file.entries[i][1] - 1, file.entries[i][2] - 1>> :
                      i \in DOMAIN file.entries}
    IN  [kind |-> "graphblas",
         nrows |-> file.nrows, ncols |-> file.ncols,
         stored |-> stored,
         nvals |-> Cardinality(stored)]

\* read_mm of csv_helper.py
ReadMm(HAS_GRAPHBLAS, file) ==
    IF HAS_GRAPHBLAS THEN MmreadGraphBLAS(file) ELSE MmreadSciPy(file)

\* Row-major order of two coordinates.
RowMajorBefore(a, b) == a[1] < b[1] \/ (a[1] = b[1] /\ a[2] < b[2])

\* The coordinates of a set, sorted by row and then by column.
RECURSIVE RowMajor(_)
RowMajor(stored) ==
    IF stored = {} THEN <<>>
    ELSE LET first == CHOOSE a \in stored :
                          \A b \in stored \ {a} : RowMajorBefore(a, b)
         IN  <<first>> \o RowMajor(stored \ {first})

\* Matrix.to_coo(): the row indices and the column indices of the stored
\* entries, in row-major order.
ToCoo(mat) ==
    LET sorted == RowMajor(mat.stored)
    IN  [rows |-> [i \in DOMAIN sorted |-> sorted[i][1]],
         cols |-> [i \in DOMAIN sorted |-> sorted[i][2]]]

\* np.abs
NpAbs(x) == IF x < 0 THEN -x ELSE x

\* ndarray.max() of an array that is not empty.
RECURSIVE NpMax(_)
NpMax(arr) ==
    IF Len(arr) = 1 THEN arr[1]
    ELSE LET rest == NpMax(Tail(arr))
         IN  IF arr[1] >= rest THEN arr[1] ELSE rest

\* The mutated GraphBLAS computation: the largest rows - cols, without the
\* absolute value.
ComputeBandwidthGraphblasSigned(mat) ==
    IF mat.nvals = 0 THEN 0
    ELSE LET coo == ToCoo(mat)
         IN  IF Len(coo.rows) = 0 THEN 0
             ELSE NpMax([i \in DOMAIN coo.rows |-> coo.rows[i] - coo.cols[i]])

\* compute_bandwidth_graphblas of csv_helper_graphblas.py
ComputeBandwidthGraphblas(mat) ==
    IF mat.nvals = 0 THEN 0
    ELSE LET coo == ToCoo(mat)
         IN  IF Len(coo.rows) = 0 THEN 0
             ELSE NpMax([i \in DOMAIN coo.rows |->
                            NpAbs(coo.rows[i] - coo.cols[i])])

\* The GraphBLAS branch of compute_bandwidth of csv_helper.py.
GraphBLASBranch(a) ==
    IF a.nvals = 0 THEN 0
    ELSE LET coo == ToCoo(a)
         IN  IF Len(coo.rows) = 0 THEN 0
             ELSE NpMax([i \in DOMAIN coo.rows |->
                            NpAbs(coo.rows[i] - coo.cols[i])])

\* The mutated SciPy branch: the distance of the last stored entry instead of
\* the largest one.
SciPyBranchLastEntry(coo) ==
    IF coo.nnz = 0 THEN 0
    ELSE NpAbs(coo.row[coo.nnz] - coo.col[coo.nnz])

\* The SciPy branch of compute_bandwidth of csv_helper.py; a.tocoo() of a
\* COO matrix is the matrix.
SciPyBranch(coo) ==
    IF coo.nnz = 0 THEN 0
    ELSE NpMax([i \in DOMAIN coo.row |-> NpAbs(coo.row[i] - coo.col[i])])

\* compute_bandwidth of csv_helper.py; only a GraphBLAS Matrix has to_coo.
ComputeBandwidth(HAS_GRAPHBLAS, a) ==
    IF HAS_GRAPHBLAS /\ a.kind = "graphblas"
    THEN GraphBLASBranch(a)
    ELSE SciPyBranch(a)

MetricsInit ==
    /\ \E n \in 1..Dim : mtx = [nrows |-> n, ncols |-> n, entries |-> <<>>]
    /\ bw_pc = "writing"
    /\ bw_scipy = None
    /\ bw_graphblas = None
    /\ bw_standalone = None
    /\ bd_impl = "none"
    /\ bd = None
    /\ perm_file = None
    /\ rtype = "none"
    /\ out_file = None
    /\ reorder_exit = None

\* The reordering technique writes one more entry to the matrix file.
MetricsWriteEntry ==
    /\ bw_pc = "writing"
    /\ Len(mtx.entries) < MaxNnz
    /\ \E r \in 1..mtx.nrows, c \in 1..mtx.ncols :
         /\ \A i \in DOMAIN mtx.entries : mtx.entries[i] # <<r, c>>
         /\ mtx' = [mtx EXCEPT !.entries = Append(@, <<r, c>>)]
    /\ UNCHANGED <<bw_pc, bw_scipy, bw_graphblas, bw_standalone>>
    /\ UNCHANGED <<densityVars, reorderVars>>
    /\ UNCHANGED <<kernelVars, smatVars, mergeVars>>

\* The matrix file is the one of test_graphblas_csv_helper.
MetricsWriteTestMatrix ==
    /\ bw_pc = "writing"
    /\ mtx.entries = <<>>
    /\ mtx' = TestMatrix
    /\ bw_pc' = "written"
    /\ UNCHANGED <<bw_scipy, bw_graphblas, bw_standalone>>
    /\ UNCHANGED <<densityVars, reorderVars>>
    /\ UNCHANGED <<kernelVars, smatVars, mergeVars>>

\* csv_helper.py measures the file on a host without GraphBLAS.
CsvHelperSciPy ==
    /\ bw_pc \in {"writing", "written"}
    /\ bw_scipy = None
    /\ bw_scipy' = Some(ComputeBandwidth(FALSE, ReadMm(FALSE, mtx)))
    /\ bw_pc' = "written"
    /\ UNCHANGED <<mtx, bw_graphblas, bw_standalone>>
    /\ UNCHANGED <<densityVars, reorderVars>>
    /\ UNCHANGED <<kernelVars, smatVars, mergeVars>>

\* csv_helper.py measures the file on a host with GraphBLAS.
CsvHelperGraphBLAS ==
    /\ bw_pc \in {"writing", "written"}
    /\ bw_graphblas = None
    /\ bw_graphblas' = Some(ComputeBandwidth(TRUE, ReadMm(TRUE, mtx)))
    /\ bw_pc' = "written"
    /\ UNCHANGED <<mtx, bw_scipy, bw_standalone>>
    /\ UNCHANGED <<densityVars, reorderVars>>
    /\ UNCHANGED <<kernelVars, smatVars, mergeVars>>

\* csv_helper_graphblas.py measures the file.
CsvHelperGraphblasMain ==
    /\ bw_pc \in {"writing", "written"}
    /\ bw_standalone = None
    /\ bw_standalone' = Some(ComputeBandwidthGraphblas(MmreadGraphBLAS(mtx)))
    /\ bw_pc' = "written"
    /\ UNCHANGED <<mtx, bw_scipy, bw_graphblas>>
    /\ UNCHANGED <<densityVars, reorderVars>>
    /\ UNCHANGED <<kernelVars, smatVars, mergeVars>>

MetricsNext ==
    \/ MetricsWriteEntry
    \/ MetricsWriteTestMatrix
    \/ CsvHelperSciPy
    \/ CsvHelperGraphBLAS
    \/ CsvHelperGraphblasMain

MetricsSpecInit == KernelIdle /\ SmatIdle /\ MergeIdle /\ MetricsInit

MetricsSpec == MetricsSpecInit /\ [][MetricsNext]_vars

(***************************************************************************)
(* Properties of the bandwidth, checked under MetricsSpec.                 *)
(***************************************************************************)
\* The 0-based coordinates stored in the matrix file.
StoredCoordinates ==
    {<<mtx.entries[i][1] - 1, mtx.entries[i][2] - 1>> : i \in DOMAIN mtx.entries}

\* The distance of a coordinate from the diagonal.
Distance(e) == IF e[1] >= e[2] THEN e[1] - e[2] ELSE e[2] - e[1]

\* 0 for no stored entry, and the largest distance from the diagonal
\* otherwise.
HalfBandwidth ==
    IF StoredCoordinates = {} THEN 0
    ELSE CHOOSE b \in {Distance(e) : e \in StoredCoordinates} :
             \A e \in StoredCoordinates : Distance(e) <= b

\* The bandwidths measured so far.
MeasuredBandwidths == {bw_scipy, bw_graphblas, bw_standalone} \ {None}

\* C9: every bandwidth computed for a matrix file is 0 when the file stores
\* no entry, and otherwise the maximum of |row - col| over the stored
\* 0-based coordinates.
C9_BandwidthIsMaxDistance ==
    \A bw \in MeasuredBandwidths : bw = Some(HalfBandwidth)

\* A file whose farthest entry comes first and lies above the diagonal,
\* measured by both branches of compute_bandwidth.
C9_Witness ==
    /\ mtx.entries = << <<1, 3>>, <<2, 2>>, <<3, 2>> >>
    /\ bw_scipy = Some(2)
    /\ bw_graphblas = Some(2)

\* C10: the GraphBLAS computations and the SciPy computation of one matrix
\* file return the same integer, and 1 for the matrix with entries at
\* (1,1),(1,2),(2,2),(3,3),(4,3),(4,4).
C10_BackendsAgree ==
    (bw_scipy # None /\ bw_graphblas # None /\ bw_standalone # None) =>
        /\ bw_graphblas = bw_scipy
        /\ bw_standalone = bw_scipy
        /\ mtx = TestMatrix => bw_scipy = Some(1)

\* The test matrix measured by all three computations.
C10_Witness ==
    /\ mtx = TestMatrix
    /\ bw_scipy = Some(1)
    /\ bw_graphblas = Some(1)
    /\ bw_standalone = Some(1)

(***************************************************************************)
(* The block densities: block_metrics of csv_helper.py and of              *)
(* csv_helper_scipy.py, and block_metrics_graphblas of                     *)
(* csv_helper_graphblas.py.                                                *)
(*                                                                         *)
(* A float that is the quotient of two small integers is the pair of the   *)
(* numerator and the denominator in lowest terms: two such quotients are   *)
(* the same float exactly when the pairs are the same.                     *)
(***************************************************************************)
\* The largest block size a density is computed for.
MaxBlock == 8

BlockSizes == 1..MaxBlock

RECURSIVE Gcd(_, _)
Gcd(a, b) == IF b = 0 THEN a ELSE Gcd(b, a % b)

\* The float a / b, for b > 0.
FloatDiv(a, b) == [num |-> a \div Gcd(a, b), den |-> b \div Gcd(a, b)]

\* The float 0.0
FloatZero == [num |-> 0, den |-> 1]

\* np.unique(np.stack([rows // block, cols // block], axis=1), axis=0).shape[0]
UniqueBlocks(rows, cols, block) ==
    Cardinality({<<rows[i] \div block, cols[i] \div block>> : i \in DOMAIN rows})

\* ((nrows + block - 1) // block) * ((ncols + block - 1) // block)
TotalBlocks(nrows, ncols, block) ==
    ((nrows + block - 1) \div block) * ((ncols + block - 1) \div block)

\* "unique / total if total else 0.0"
Occupancy(unique, total) == IF total # 0 THEN FloatDiv(unique, total) ELSE FloatZero

\* The mutated block_metrics: the fill ratio of the occupied tiles instead of
\* the share of occupied tiles.
BlockMetricsFillRatio(HAS_GRAPHBLAS, a, block) ==
    IF HAS_GRAPHBLAS /\ a.kind = "graphblas"
    THEN IF a.nvals = 0 THEN FloatZero
         ELSE LET coo == ToCoo(a)
              IN  IF Len(coo.rows) = 0 THEN FloatZero
                  ELSE FloatDiv(a.nvals,
                                UniqueBlocks(coo.rows, coo.cols, block) * block * block)
    ELSE IF a.nnz = 0 THEN FloatZero
         ELSE FloatDiv(a.nnz, UniqueBlocks(a.row, a.col, block) * block * block)

\* The mutated block_metrics: a matrix without entries gets the density 1.0.
BlockMetricsOneWhenEmpty(HAS_GRAPHBLAS, a, block) ==
    IF HAS_GRAPHBLAS /\ a.kind = "graphblas"
    THEN IF a.nvals = 0 THEN FloatDiv(1, 1)
         ELSE LET coo == ToCoo(a)
              IN  Occupancy(UniqueBlocks(coo.rows, coo.cols, block),
                            TotalBlocks(a.nrows, a.ncols, block))
    ELSE IF a.nnz = 0 THEN FloatDiv(1, 1)
         ELSE Occupancy(UniqueBlocks(a.row, a.col, block),
                        TotalBlocks(a.shape[1], a.shape[2], block))

\* The mutated block_metrics: the grid counts only the whole tiles,
\* (nrows // block) * (ncols // block).
BlockMetricsWholeTiles(HAS_GRAPHBLAS, a, block) ==
    IF HAS_GRAPHBLAS /\ a.kind = "graphblas"
    THEN IF a.nvals = 0 THEN FloatZero
         ELSE LET coo == ToCoo(a)
              IN  Occupancy(UniqueBlocks(coo.rows, coo.cols, block),
                            (a.nrows \div block) * (a.ncols \div block))
    ELSE IF a.nnz = 0 THEN FloatZero
         ELSE Occupancy(UniqueBlocks(a.row, a.col, block),
                        (a.shape[1] \div block) * (a.shape[2] \div block))

\* block_metrics of csv_helper.py
BlockMetrics(HAS_GRAPHBLAS, a, block) ==
    IF HAS_GRAPHBLAS /\ a.kind = "graphblas"
    THEN IF a.nvals = 0 THEN FloatZero
         ELSE LET coo == ToCoo(a)
              IN  IF Len(coo.rows) = 0 THEN FloatZero
                  ELSE Occupancy(UniqueBlocks(coo.rows, coo.cols, block),
                                 TotalBlocks(a.nrows, a.ncols, block))
    ELSE IF a.nnz = 0 THEN FloatZero
         ELSE Occupancy(UniqueBlocks(a.row, a.col, block),
                        TotalBlocks(a.shape[1], a.shape[2], block))

\* block_metrics_graphblas of csv_helper_graphblas.py
BlockMetricsGraphblas(mat, block) ==
    IF mat.nvals = 0 THEN FloatZero
    ELSE LET coo == ToCoo(mat)
         IN  IF Len(coo.rows) = 0 THEN FloatZero
             ELSE Occupancy(UniqueBlocks(coo.rows, coo.cols, block),
                            TotalBlocks(mat.nrows, mat.ncols, block))

\* The mutated quotient: the operands are swapped.
FillRatioSwapped(nnz, area) == IF area > 0 THEN FloatDiv(area, nnz) ELSE FloatZero

\* "nnz / total_area_nonzero_blocks if total_area_nonzero_blocks > 0 else 0.0"
FillRatio(nnz, area) == IF area > 0 THEN FloatDiv(nnz, area) ELSE FloatZero

\* The mutated block_metrics of csv_helper_scipy.py: the area of one tile is
\* taken as block instead of block * block.
ScipyBlockMetricsLinearArea(HAS_GRAPHBLAS, a, block) ==
    IF HAS_GRAPHBLAS /\ a.kind = "graphblas"
    THEN IF a.nvals = 0 THEN FloatZero
         ELSE LET coo == ToCoo(a)
              IN  FillRatio(a.nvals, UniqueBlocks(coo.rows, coo.cols, block) * block)
    ELSE IF a.nnz = 0 THEN FloatZero
         ELSE FillRatio(a.nnz, UniqueBlocks(a.row, a.col, block) * block)

\* block_metrics of csv_helper_scipy.py
ScipyBlockMetrics(HAS_GRAPHBLAS, a, block) ==
    IF HAS_GRAPHBLAS /\ a.kind = "graphblas"
    THEN IF a.nvals = 0 THEN FloatZero
         ELSE LET coo == ToCoo(a)
              IN  IF Len(coo.rows) = 0 THEN FloatZero
                  ELSE FillRatio(a.nvals,
                                 UniqueBlocks(coo.rows, coo.cols, block) * (block * block))
    ELSE IF a.nnz = 0 THEN FloatZero
         ELSE FillRatio(a.nnz, UniqueBlocks(a.row, a.col, block) * (block * block))

\* scipy.sparse.eye(4), as the file that holds it.
Identity4 ==
    [nrows |-> 4, ncols |-> 4,
     entries |-> << <<1, 1>>, <<2, 2>>, <<3, 3>>, <<4, 4>> >>]

\* coo_matrix(([1.0], ([0], [0])), shape=(4, 4)), as the file that holds it.
Single4 == [nrows |-> 4, ncols |-> 4, entries |-> << <<1, 1>> >>]

\* scipy.sparse.eye(8), as the file that holds it.
Identity8 ==
    [nrows |-> 8, ncols |-> 8, entries |-> [i \in 1..8 |-> <<i, i>>]]

DensityInit ==
    /\ \E nr \in 1..Dim, nc \in 1..Dim :
          mtx = [nrows |-> nr, ncols |-> nc, entries |-> <<>>]
    /\ bw_pc = "writing"
    /\ bw_scipy = None
    /\ bw_graphblas = None
    /\ bw_standalone = None
    /\ bd_impl = "none"
    /\ bd = None
    /\ perm_file = None
    /\ rtype = "none"
    /\ out_file = None
    /\ reorder_exit = None

\* The matrix is one of the matrices of test_block_density.py.
DensityWriteFixture ==
    /\ bw_pc = "writing"
    /\ mtx.entries = <<>>
    /\ mtx' \in {Identity4, Single4, Identity8}
    /\ bw_pc' = "written"
    /\ UNCHANGED <<bw_scipy, bw_graphblas, bw_standalone, densityVars, reorderVars>>
    /\ UNCHANGED <<kernelVars, smatVars, mergeVars>>

\* block_metrics of csv_helper.py is applied to the matrix, for every block
\* size.
CsvHelperBlockMetrics ==
    /\ bd = None
    /\ \E has \in BOOLEAN :
         /\ bd_impl' = IF has THEN "csv_helper/graphblas" ELSE "csv_helper/scipy"
         /\ bd' = Some([b \in BlockSizes |-> BlockMetrics(has, ReadMm(has, mtx), b)])
    /\ bw_pc' = "written"
    /\ UNCHANGED <<mtx, bw_scipy, bw_graphblas, bw_standalone, reorderVars>>
    /\ UNCHANGED <<kernelVars, smatVars, mergeVars>>

\* block_metrics_graphblas is applied to the matrix, for every block size.
CsvHelperGraphblasBlockMetrics ==
    /\ bd = None
    /\ bd_impl' = "csv_helper_graphblas"
    /\ bd' = Some([b \in BlockSizes |-> BlockMetricsGraphblas(MmreadGraphBLAS(mtx), b)])
    /\ bw_pc' = "written"
    /\ UNCHANGED <<mtx, bw_scipy, bw_graphblas, bw_standalone, reorderVars>>
    /\ UNCHANGED <<kernelVars, smatVars, mergeVars>>

\* block_metrics of csv_helper_scipy.py is applied to the matrix, for every
\* block size.
CsvHelperScipyBlockMetrics ==
    /\ bd = None
    /\ \E has \in BOOLEAN :
         /\ bd_impl' = IF has THEN "csv_helper_scipy/graphblas"
                              ELSE "csv_helper_scipy/scipy"
         /\ bd' = Some([b \in BlockSizes |-> ScipyBlockMetrics(has, ReadMm(has, mtx), b)])
    /\ bw_pc' = "written"
    /\ UNCHANGED <<mtx, bw_scipy, bw_graphblas, bw_standalone, reorderVars>>
    /\ UNCHANGED <<kernelVars, smatVars, mergeVars>>

DensityNext ==
    \/ MetricsWriteEntry
    \/ DensityWriteFixture
    \/ CsvHelperBlockMetrics
    \/ CsvHelperGraphblasBlockMetrics
    \/ CsvHelperScipyBlockMetrics

DensitySpecInit == KernelIdle /\ SmatIdle /\ MergeIdle /\ DensityInit

DensitySpec == DensitySpecInit /\ [][DensityNext]_vars

(***************************************************************************)
(* Properties of the block densities, checked under DensitySpec.           *)
(***************************************************************************)
\* The densities computed, by block size.
Densities == bd[1]

\* The implementations of the occupancy density and of the fill density.
OccupancyImpls == {"csv_helper/scipy", "csv_helper/graphblas", "csv_helper_graphblas"}
FillImpls == {"csv_helper_scipy/scipy", "csv_helper_scipy/graphblas"}

\* The tiles of size b that hold a stored entry.
OccupiedTiles(b) ==
    {<<e[1] \div b, e[2] \div b>> : e \in StoredCoordinates}

\* The density d is the quotient n / m.
IsQuotient(d, n, m) == d.num * m = n * d.den

\* d1 <= d2
FloatLeq(d1, d2) == d1.num * d2.den <= d2.num * d1.den

\* C11, as stated: the occupancy density of the 4x4 identity matrix is 1.0
\* for block 1, 0.5 for block 2 and 0.25 for block 4.
C11_OccupancyOfIdentityAsStated ==
    (bd # None /\ bd_impl \in OccupancyImpls /\ mtx = Identity4) =>
        /\ IsQuotient(Densities[1], 1, 1)
        /\ IsQuotient(Densities[2], 1, 2)
        /\ IsQuotient(Densities[4], 1, 4)

\* C11, amended: the occupancy density of the 4x4 identity matrix is 0.25
\* for block 1, 0.5 for block 2 and 1.0 for block 4.
C11_OccupancyOfIdentity ==
    (bd # None /\ bd_impl \in OccupancyImpls /\ mtx = Identity4) =>
        /\ IsQuotient(Densities[1], 1, 4)
        /\ IsQuotient(Densities[2], 1, 2)
        /\ IsQuotient(Densities[4], 1, 1)

\* block_metrics of csv_helper.py has measured the 4x4 identity matrix on a
\* host without GraphBLAS.
C11_Witness ==
    /\ mtx = Identity4
    /\ bd_impl = "csv_helper/scipy"
    /\ bd # None
    /\ Densities[1] = [num |-> 1, den |-> 4]
    /\ Densities[4] = [num |-> 1, den |-> 1]

\* C12: for a matrix with a stored entry and every block size B,
\* block_metrics of csv_helper_scipy.py returns nnz divided by (the number
\* of tiles (row // B, col // B) that hold an entry, times B * B); the 4x4
\* identity gives 1.0, 0.5, 0.25 and a single entry in a 4x4 matrix gives
\* 1, 1/4, 1/16 for B = 1, 2, 4.
C12_FillDensity ==
    (bd # None /\ bd_impl \in FillImpls /\ mtx.entries # <<>>) =>
        /\ \A b \in BlockSizes :
              IsQuotient(Densities[b], Len(mtx.entries),
                         Cardinality(OccupiedTiles(b)) * b * b)
        /\ mtx = Identity4 =>
              /\ Densities[1] = [num |-> 1, den |-> 1]
              /\ Densities[2] = [num |-> 1, den |-> 2]
              /\ Densities[4] = [num |-> 1, den |-> 4]
        /\ mtx = Single4 =>
              /\ Densities[1] = [num |-> 1, den |-> 1]
              /\ Densities[2] = [num |-> 1, den |-> 4]
              /\ Densities[4] = [num |-> 1, den |-> 16]

\* block_metrics of csv_helper_scipy.py has measured the single-entry matrix.
C12_Witness ==
    /\ mtx = Single4
    /\ bd_impl = "csv_helper_scipy/scipy"
    /\ bd # None
    /\ Densities[2] = [num |-> 1, den |-> 4]

\* C13: for a matrix without stored entries every block-density
\* implementation returns 0.0 for every block size.
C13_EmptyMatrixHasDensityZero ==
    (bd # None /\ mtx.entries = <<>>) =>
        \A b \in BlockSizes : Densities[b] = FloatZero

\* An empty matrix measured by block_metrics of csv_helper.py.
C13_Witness ==
    /\ mtx.entries = <<>>
    /\ mtx.nrows = 3
    /\ mtx.ncols = 2
    /\ bd_impl = "csv_helper/graphblas"
    /\ bd # None
    /\ Densities[2] = FloatZero

\* C14, as stated: the occupancy density of csv_helper.block_metrics is at
\* most 1 and does not grow with the block size.
C14_OccupancyDecreasesAsStated ==
    (bd # None /\ bd_impl \in {"csv_helper/scipy", "csv_helper/graphblas"}) =>
        /\ \A b \in BlockSizes : FloatLeq(Densities[b], [num |-> 1, den |-> 1])
        /\ \A b1, b2 \in BlockSizes :
              b1 < b2 => FloatLeq(Densities[b2], Densities[b1])

\* C14, amended: the occupancy density of csv_helper.block_metrics is at
\* most 1 for every matrix and every block size.
C14_OccupancyAtMostOne ==
    (bd # None /\ bd_impl \in {"csv_helper/scipy", "csv_helper/graphblas"}) =>
        \A b \in BlockSizes : FloatLeq(Densities[b], [num |-> 1, den |-> 1])

\* A 3x3 matrix whose entries fill the first 2x2 tile: every tile of size 3
\* is occupied, one of the four tiles of size 2, four of the nine of size 1.
C14_Witness ==
    /\ mtx.nrows = 3 /\ mtx.ncols = 3
    /\ StoredCoordinates = {<<0, 0>>, <<0, 1>>, <<1, 0>>}
    /\ bd_impl = "csv_helper/scipy"
    /\ bd # None
    /\ Densities[1] = [num |-> 1, den |-> 3]
    /\ Densities[2] = [num |-> 1, den |-> 4]
    /\ Densities[3] = [num |-> 1, den |-> 1]

(***************************************************************************)
(* The merges into the results CSV: the main functions of csv_helper.py,   *)
(* csv_helper_scipy.py and csv_helper_graphblas.py, update_csv.py and      *)
(* update_csv_multiply.py, run one after the other on one file.            *)
(*                                                                         *)
(* The results CSV holds one row.                                          *)
(***************************************************************************)
\* block_sizes = (4, 8, 16, 32, 64)
block_sizes == <<4, 8, 16, 32, 64>>

\* json.dumps(densities)
JsonDumps(densities) == <<"json", densities>>

\* The mutated assignment: df.loc[len(df), column] = value, which adds a row
\* with the value and NaN in every other column.
SetCellAppendsRow(df, column, value) ==
    [df EXCEPT !.rows = Append(@, [c \in DOMAIN df.rows[1] |->
                                      IF c = column THEN value ELSE Null])]

\* df.loc[0, column] = value
SetCell(df, column, value) ==
    [df EXCEPT !.rows[1][column] = value]

\* df[column] = df[column].astype(str): NaN becomes the text "nan".
AsTypeStr(df, column) ==
    [df EXCEPT !.rows = [r \in DOMAIN df.rows |->
        [df.rows[r] EXCEPT ![column] = IF @ = Null THEN Str("nan") ELSE @]]]

\* The programs that merge the structural metrics, with the backend they
\* find installed.
HelperProgs ==
    {"csv_helper/scipy", "csv_helper/graphblas", "csv_helper_graphblas",
     "csv_helper_scipy/scipy", "csv_helper_scipy/graphblas"}

\* Whether the program finds GraphBLAS installed.
HasGraphblas(prog) ==
    prog \in {"csv_helper/graphblas", "csv_helper_graphblas", "csv_helper_scipy/graphblas"}

\* bw = compute_bandwidth(A), or compute_bandwidth_graphblas(A); the
\* compute_bandwidth of csv_helper_scipy.py is the one of csv_helper.py.
HelperBandwidth(prog, file) ==
    IF prog = "csv_helper_graphblas"
    THEN ComputeBandwidthGraphblas(MmreadGraphBLAS(file))
    ELSE ComputeBandwidth(HasGraphblas(prog), ReadMm(HasGraphblas(prog), file))

\* densities = {b: block_metrics(A, b) for b in block_sizes}
HelperDensities(prog, file) ==
    [b \in Range(block_sizes) |->
        CASE prog = "csv_helper_graphblas" ->
                 BlockMetricsGraphblas(MmreadGraphBLAS(file), b)
          [] prog \in {"csv_helper/scipy", "csv_helper/graphblas"} ->
                 BlockMetrics(HasGraphblas(prog), ReadMm(HasGraphblas(prog), file), b)
          [] OTHER ->
                 ScipyBlockMetrics(HasGraphblas(prog), ReadMm(HasGraphblas(prog), file), b)]

\* The mutated main: the file is rewritten with the two metrics and the
\* columns that name the run; the other columns are dropped.
RunCsvHelperKnownColumns(prog, csv, file) ==
    LET keep == SelectSeq(csv.columns,
                          LAMBDA c : c \in {"matrix_name", "reorder_tech"})
        cols == keep \o <<"bandwidth", "block_density">>
    IN  [csv |-> [columns |-> cols,
                  rows |-> <<[c \in Range(cols) |->
                      CASE c = "bandwidth" -> Num(HelperBandwidth(prog, file))
                        [] c = "block_density" -> JsonDumps(HelperDensities(prog, file))
                        [] OTHER -> csv.rows[1][c]]>>],
         exit |-> Some(0)]

\* main of csv_helper.py, csv_helper_scipy.py and csv_helper_graphblas.py on
\* the CSV csv and the matrix file: the CSV it leaves on disk.
RunCsvHelper(prog, csv, file) ==
    LET df1 == IF "bandwidth" \notin Range(csv.columns)
               THEN SetColumn(csv, "bandwidth", Null) ELSE csv
        df2 == IF "block_density" \notin Range(df1.columns)
               THEN SetColumn(df1, "block_density", Str("")) ELSE df1
        df3 == SetCell(df2, "bandwidth", Num(HelperBandwidth(prog, file)))
        df4 == AsTypeStr(df3, "block_density")
        df5 == SetCell(df4, "block_density", JsonDumps(HelperDensities(prog, file)))
    IN  [csv |-> ToCsv(df5), exit |-> Some(0)]

\* update_csv.py on the CSV csv: the CSV it leaves on disk and its exit
\* status.  Fewer than six arguments fail the unpacking of sys.argv[1:7];
\* float(time_ms) and int(status) raise ValueError before df.to_csv.
RunUpdateCsv(csv, args) ==
    IF ~args.argc_ok \/ args.time_ms = None \/ args.status = None
    THEN [csv |-> csv, exit |-> Some(1)]
    ELSE [csv |-> ToCsv(
             SetColumn(SetColumn(SetColumn(SetColumn(SetColumn(csv,
                 "mult_type", Str(args.impl)),
                 "mult_param_set", Str(args.param_set)),
                 "mult_time_ms", Num(args.time_ms[1])),
                 "exit_code", Num(args.status[1])),
                 "timestamp", Str(args.timestamp))),
          exit |-> Some(0)]

\* One run of a merging program.
RunMerge(prog, csv, args, sidecar, file) ==
    CASE prog = "update_csv" -> RunUpdateCsv(csv, args[1])
      [] prog = "update_csv_multiply" -> RunUpdateCsvMultiply(csv, args[1], sidecar)
      [] OTHER -> RunCsvHelper(prog, csv, file[1])

\* The CSV of test_graphblas_csv_helper.
HelperTestCsv ==
    [columns |-> <<"matrix_name", "reorder_tech", "exit_code">>,
     rows |-> <<[c \in {"matrix_name", "reorder_tech", "exit_code"} |->
                   CASE c = "matrix_name" -> Str("test")
                     [] c = "reorder_tech" -> Str("identity")
                     [] c = "exit_code" -> Num(0)]>>]

\* The matrix files handed to the metrics programs.
HelperMatrices ==
    {TestMatrix, Identity4, [nrows |-> 4, ncols |-> 4, entries |-> <<>>]}

\* The command lines of the multiply merges.
CsvArgs ==
    [argc_ok : {TRUE}, impl : MergeImpls, param_set : MergeParamSets,
     time_ms : {Some(10)}, status : {Some(0), Some(1)},
     timestamp : {"t1"}, results_given : BOOLEAN]
CsvSidecars ==
    { <<AvgLine(Num(5)), <<Str("gflops"), Num(7)>> >>,
      <<AvgLine(Num(5)), <<Str("nnz"), Num(4)>> >> }

CsvInit ==
    /\ csv_file \in {[columns |-> ReorderColumns, rows |-> <<ReorderRow(Null)>>],
                     [columns |-> ReorderColumns,
                      rows |-> <<ReorderRow(Str("symmetric=true"))>>],
                     HelperTestCsv}
    /\ merge_pc = "ready"
    /\ merge_runs = 0
    /\ merge_args = None
    /\ merge_sidecar = None
    /\ merge_exit = None
    /\ csv_before = None
    /\ merge_prog = "none"
    /\ merge_matrix = None
    /\ merge_repeat = FALSE

\* The run of prog with the given inputs, and what the model records of it.
CsvRun(prog, args, sidecar, file, repeat) ==
    /\ merge_runs < MaxMerges
    /\ merge_runs' = merge_runs + 1
    /\ \E out \in {RunMerge(prog, csv_file, args, sidecar, file)} :
         /\ csv_file' = out.csv
         /\ merge_exit' = out.exit
    /\ csv_before' = Some(csv_file)
    /\ merge_prog' = prog
    /\ merge_args' = args
    /\ merge_sidecar' = sidecar
    /\ merge_matrix' = file
    /\ merge_repeat' = repeat
    /\ merge_pc' = "ran"
    /\ UNCHANGED <<kernelVars, smatVars, metricsVars>>

\* One of the metrics programs is run on the results CSV.
CsvHelperMain ==
    /\ merge_pc \in {"ready", "ran"}
    /\ \E prog \in HelperProgs, file \in HelperMatrices :
          CsvRun(prog, None, None, Some(file), FALSE)

\* update_csv.py is run on the results CSV.
CsvUpdateCsv ==
    /\ merge_pc \in {"ready", "ran"}
    /\ \E args \in CsvArgs :
          /\ ~args.results_given
          /\ CsvRun("update_csv", Some(args), None, None, FALSE)

\* update_csv_multiply.py is run on the results CSV.
CsvUpdateCsvMultiply ==
    /\ merge_pc \in {"ready", "ran"}
    /\ \E args \in CsvArgs, sidecar \in {None} \cup {Some(f) : f \in CsvSidecars} :
          /\ ~args.results_given => sidecar = None
          /\ CsvRun("update_csv_multiply", Some(args), sidecar, None, FALSE)

\* The last program is run again with the same inputs, at a later time.
CsvRerun ==
    /\ merge_pc = "ran"
    /\ merge_exit = Some(0)
    /\ CsvRun(merge_prog,
              IF merge_args = None THEN None
              ELSE Some([merge_args[1] EXCEPT !.timestamp = "t2"]),
              merge_sidecar, merge_matrix, TRUE)

CsvNext ==
    \/ CsvHelperMain
    \/ CsvUpdateCsv
    \/ CsvUpdateCsvMultiply
    \/ CsvRerun

CsvSpecInit == KernelIdle /\ SmatIdle /\ CsvInit /\ MetricsIdle

CsvSpec == CsvSpecInit /\ [][CsvNext]_vars

(***************************************************************************)
(* Properties of the merges, checked under CsvSpec.                        *)
(***************************************************************************)
\* The CSV the last run found on disk.
CsvBefore == csv_before[1]

\* The one row of the CSV on disk, and of the CSV the last run found.
RowNow == csv_file.rows[1]
RowBefore == CsvBefore.rows[1]

\* The last run was a metrics merge, a multiply merge; it completed.
LastWasHelper == merge_pc = "ran" /\ merge_prog \in HelperProgs
LastWasMultiply == merge_pc = "ran" /\ merge_prog \in {"update_csv", "update_csv_multiply"}
LastCompleted == merge_pc = "ran" /\ merge_exit = Some(0)

\* The column c of the last run's input is on disk with the same value.
ColumnKept(c) == c \in Range(csv_file.columns) /\ RowNow[c] = RowBefore[c]

\* C15: a metrics merge leaves every column other than bandwidth and
\* block_density with the value it had, and adds or removes no other column.
C15_MetricsMergeFrame ==
    (LastWasHelper /\ LastCompleted) =>
        /\ \A c \in Range(CsvBefore.columns) \ {"bandwidth", "block_density"} :
              ColumnKept(c)
        /\ Range(csv_file.columns) =
              Range(CsvBefore.columns) \cup {"bandwidth", "block_density"}

\* csv_helper_graphblas.py has merged the metrics of the test matrix into the
\* three-column CSV of the test.
C15_Witness ==
    /\ LastWasHelper
    /\ merge_prog = "csv_helper_graphblas"
    /\ CsvBefore = HelperTestCsv
    /\ merge_matrix = Some(TestMatrix)
    /\ RowNow["bandwidth"] = Num(1)
    /\ RowNow["exit_code"] = Num(0)
    /\ Len(csv_file.columns) = 5

\* C16: a multiply merge leaves every column of the reorder stage and of the
\* metrics engine that was present with the value it had (timestamp, which
\* the specification lets vary, is left out).
C16_MultiplyMergeFrame ==
    (LastWasMultiply /\ LastCompleted) =>
        \A c \in (Range(CsvBefore.columns) \cap Range(ReorderColumns)) \ {"timestamp"} :
            ColumnKept(c)

\* C17: after a completed multiply merge that was given no results file, the
\* columns gflops and mult_metrics hold no value of an earlier merge.
C17_NoStaleMultiplyColumns ==
    (LastWasMultiply /\ LastCompleted /\ merge_sidecar = None) =>
        \A c \in {"gflops", "mult_metrics"} \cap Range(csv_file.columns) :
            RowNow[c] = Null

\* C18: a completed multiply merge run with no parameters stores NULL in
\* mult_param_set, and a reord_param_set that is NULL stays NULL through
\* every completed merge.
C18_EmptyParamSetIsNull ==
    LastCompleted =>
        /\ (LastWasMultiply /\ merge_args[1].param_set = "") =>
              RowNow["mult_param_set"] = Null
        /\ ("reord_param_set" \in Range(CsvBefore.columns)
               /\ RowBefore["reord_param_set"] = Null) =>
              ColumnKept("reord_param_set")

\* A reorder run without parameters, followed by a metrics merge and by a
\* multiply merge without parameters.
C18_Witness ==
    /\ LastWasMultiply /\ LastCompleted
    /\ merge_runs = 2
    /\ merge_args[1].param_set = ""
    /\ "reord_param_set" \in Range(csv_file.columns)
    /\ RowNow["block_density"][1] = "json"
    /\ RowNow["reord_param_set"] = Null
    /\ RowNow["mult_param_set"] = Null

\* C19: a merge that is applied a second time with the same inputs leaves
\* the row as the first application left it, in every column except
\* timestamp.
C19_MergeIsIdempotent ==
    (merge_repeat /\ LastCompleted) =>
        /\ csv_file.columns = CsvBefore.columns
        /\ \A c \in Range(CsvBefore.columns) \ {"timestamp"} : ColumnKept(c)

\* update_csv_multiply.py applied twice with the same results file, at two
\* different times.
C19_Witness ==
    /\ merge_repeat /\ LastCompleted
    /\ merge_prog = "update_csv_multiply"
    /\ merge_sidecar # None
    /\ merge_args[1].impl = "cucsrspmm"
    /\ RowBefore["timestamp"] = Str("t1")
    /\ RowNow["timestamp"] = Str("t2")
    /\ RowNow["mult_time_ms"] = Num(5)

(***************************************************************************)
(* reorder_matrix.py: apply_permutation reads a matrix file and a          *)
(* permutation file of 1-based indices, one per line, reorders the rows    *)
(* (1D) or the rows and the columns (2D) and writes the matrix with        *)
(* 1-based coordinates.  The matrices are square, the only ones a 2D       *)
(* permutation of n indices applies to.  An exception raised inside        *)
(* apply_permutation ends main with exit code 1 and writes no file.        *)
(***************************************************************************)
\* The permutation files for a matrix of n rows: every index of 1..n once.
PermutationFiles(n) ==
    {p \in [1..n -> 1..n] : \A i, j \in 1..n : p[i] = p[j] => i = j}

\* The identity permutation [1, 2, ..., n].
IdentityPermutation(n) == [i \in 1..n |-> i]

\* load_mm: Matrix.from_mmio
LoadMm(path) == MmreadGraphBLAS(path)

\* np.loadtxt(perm, dtype=np.int64), with the default ndmin=0: a file of one
\* line gives a 0-dimensional array, a longer file a 1-dimensional one.
NpLoadtxt(lines) ==
    IF Len(lines) = 1
    THEN [ndim |-> 0, item |-> lines[1]]
    ELSE [ndim |-> 1, items |-> lines]

\* p - 1 of a NumPy array
MinusOne(p) ==
    IF p.ndim = 0
    THEN [ndim |-> 0, item |-> p.item - 1]
    ELSE [ndim |-> 1, items |-> [i \in DOMAIN p.items |-> p.items[i] - 1]]

\* ndarray.tolist(): a Python int for a 0-dimensional array, a list
\* otherwise.
ToList(p) ==
    IF p.ndim = 0
    THEN [kind |-> "int", value |-> p.item]
    ELSE [kind |-> "list", values |-> p.items]

\* What an expression that raised evaluates to.
Raised == [kind |-> "raised"]

\* A[idx, :] of GraphBLAS: an int selects one row as a Vector; a list
\* selects the rows idx[0], idx[1], ... as the rows 0, 1, ... of a Matrix.
\* An index outside the matrix raises, and so does indexing what is not a
\* Matrix by two indices.
ExtractRows(A, idx) ==
    IF A.kind # "graphblas" THEN Raised
    ELSE IF idx.kind = "int"
    THEN IF idx.value \notin 0..(A.nrows - 1) THEN Raised
         ELSE [kind |-> "vector", size |-> A.ncols,
               stored |-> {c \in 0..(A.ncols - 1) : <<idx.value, c>> \in A.stored}]
    ELSE IF \E i \in DOMAIN idx.values : idx.values[i] \notin 0..(A.nrows - 1)
    THEN Raised
    ELSE LET stored == {<<x[1] - 1, x[2]>> :
                           x \in {y \in (DOMAIN idx.values) \X (0..(A.ncols - 1)) :
                                     <<idx.values[y[1]], y[2]>> \in A.stored}}
         IN  [kind |-> "graphblas",
              nrows |-> Len(idx.values), ncols |-> A.ncols,
              stored |-> stored,
              nvals |-> Cardinality(stored)]

\* A[:, idx] of GraphBLAS, the same for the columns.
ExtractCols(A, idx) ==
    IF A.kind # "graphblas" THEN Raised
    ELSE IF idx.kind = "int"
    THEN IF idx.value \notin 0..(A.ncols - 1) THEN Raised
         ELSE [kind |-> "vector", size |-> A.nrows,
               stored |-> {r \in 0..(A.nrows - 1) : <<r, idx.value>> \in A.stored}]
    ELSE IF \E i \in DOMAIN idx.values : idx.values[i] \notin 0..(A.ncols - 1)
    THEN Raised
    ELSE LET stored == {<<x[1], x[2] - 1>> :
                           x \in {y \in (0..(A.nrows - 1)) \X (DOMAIN idx.values) :
                                     <<y[1], idx.values[y[2]]>> \in A.stored}}
         IN  [kind |-> "graphblas",
              nrows |-> A.nrows, ncols |-> Len(idx.values),
              stored |-> stored,
              nvals |-> Cardinality(stored)]

\* save_mm: the file written for a Matrix, with 1-based coordinates in the
\* row-major order of to_lists; None when mat is not a Matrix (to_lists,
\* nrows and ncols are those of a Matrix) and save_mm raises.
SaveMm(mat) ==
    IF mat.kind # "graphblas" THEN None
    ELSE LET sorted == RowMajor(mat.stored)
         IN  Some([nrows |-> mat.nrows, ncols |-> mat.ncols,
                   entries |-> [i \in DOMAIN sorted |->
                                   <<sorted[i][1] + 1, sorted[i][2] + 1>>]])

\* apply_permutation: the file written at out_path, None when it raised.
ApplyPermutation(matrix_path, perm, rt) ==
    LET A == LoadMm(matrix_path)
        p == MinusOne(NpLoadtxt(perm))
        idx == ToList(p)
        B == IF rt = "2D"
             THEN ExtractCols(ExtractRows(A, idx), idx)
             ELSE ExtractRows(A, idx)
    IN  SaveMm(B)

ReorderInit ==
    /\ \E n \in 1..Dim : mtx = [nrows |-> n, ncols |-> n, entries |-> <<>>]
    /\ bw_pc = "writing"
    /\ bw_scipy = None
    /\ bw_graphblas = None
    /\ bw_standalone = None
    /\ bd_impl = "none"
    /\ bd = None
    /\ perm_file = None
    /\ rtype = "none"
    /\ out_file = None
    /\ reorder_exit = None

\* One more entry of the matrix file, after the entries written so far in
\* row-major order.
ReorderWriteEntry ==
    /\ bw_pc = "writing"
    /\ Len(mtx.entries) < MaxNnz
    /\ \E r \in 1..mtx.nrows, c \in 1..mtx.ncols :
         /\ \A i \in DOMAIN mtx.entries : RowMajorBefore(mtx.entries[i], <<r, c>>)
         /\ mtx' = [mtx EXCEPT !.entries = Append(@, <<r, c>>)]
    /\ UNCHANGED <<bw_pc, bw_scipy, bw_graphblas, bw_standalone>>
    /\ UNCHANGED <<densityVars, reorderVars>>
    /\ UNCHANGED <<kernelVars, smatVars, mergeVars>>

\* The reordering technique writes the permutation file.
ReorderWritePermutation ==
    /\ bw_pc = "writing"
    /\ \E p \in PermutationFiles(mtx.nrows) : perm_file' = Some(p)
    /\ bw_pc' = "permuted"
    /\ UNCHANGED <<mtx, bw_scipy, bw_graphblas, bw_standalone, densityVars>>
    /\ UNCHANGED <<rtype, out_file, reorder_exit>>
    /\ UNCHANGED <<kernelVars, smatVars, mergeVars>>

\* main of reorder_matrix.py: rtype is one of argparse's choices.
ReorderMatrixMain ==
    /\ bw_pc = "permuted"
    /\ \E rt \in {"1D", "2D"} :
         /\ rtype' = rt
         /\ out_file' = ApplyPermutation(mtx, perm_file[1], rt)
    /\ reorder_exit' = Some(IF out_file' = None THEN 1 ELSE 0)
    /\ bw_pc' = "reordered"
    /\ UNCHANGED <<mtx, bw_scipy, bw_graphblas, bw_standalone, densityVars>>
    /\ UNCHANGED perm_file
    /\ UNCHANGED <<kernelVars, smatVars, mergeVars>>

ReorderNext ==
    \/ ReorderWriteEntry
    \/ ReorderWritePermutation
    \/ ReorderMatrixMain

ReorderSpecInit == KernelIdle /\ SmatIdle /\ MergeIdle /\ ReorderInit

ReorderSpec == ReorderSpecInit /\ [][ReorderNext]_vars

(***************************************************************************)
(* Properties of the reordering, checked under ReorderSpec.                *)
(***************************************************************************)
\* The 0-based coordinates stored in the reordered matrix file.
ReorderedCoordinates ==
    {<<out_file[1].entries[i][1] - 1, out_file[1].entries[i][2] - 1>> :
        i \in DOMAIN out_file[1].entries}

\* reorder_matrix.py has run with the identity permutation.
IdentityApplied ==
    /\ bw_pc = "reordered"
    /\ perm_file = Some(IdentityPermutation(mtx.nrows))

\* C20: applying the identity permutation [1, 2, ..., n] in either mode
\* yields a matrix with the stored coordinates of the original one, hence
\* the same number of entries and the same bandwidth.
C20_IdentityReorderKeepsMatrix ==
    IdentityApplied =>
        /\ out_file # None
        /\ ReorderedCoordinates = StoredCoordinates
        /\ Len(out_file[1].entries) = Len(mtx.entries)
        /\ ComputeBandwidthGraphblas(MmreadGraphBLAS(out_file[1])) = HalfBandwidth

(***************************************************************************)
(* The pipeline coordinator: one invocation runs the reorder stage, the    *)
(* metrics engine and the multiply stage one after the other.  Each stage  *)
(* ends with an exit code and leaves artifacts in the output directory; a  *)
(* stage that fails may have written only some of its artifacts.           *)
(***************************************************************************)
\* The largest exit code of a stage.
MaxExit == 2

ExitCodes == 0..MaxExit

\* The stages, in the order of the state machine.
Stages == <<"reorder", "metrics", "multiply">>

\* The state an invocation is in after stage number k ended with exit code 0.
StateAfter == <<"REORDERED", "METRICS_COMPUTED", "MULTIPLIED">>

\* The artifacts a stage writes.
StageArtifacts(stage) ==
    CASE stage = "reorder"  -> {"permutation.g", "reordered.mtx", "results.csv"}
      [] stage = "metrics"  -> {"bandwidth", "block_density"}
      [] stage = "multiply" -> {"kernel.out", "mult_columns"}

\* The mutated coordinator: a failed stage does not stop the invocation.
StageOutcomeIgnoresExit(k, code) == StateAfter[k]

\* The state after stage number k ended with the exit code: any nonzero exit
\* moves the invocation to FAILED.
StageOutcome(k, code) == IF code = 0 THEN StateAfter[k] ELSE "FAILED"

PipelineInit ==
    /\ pl_state = "LOADED"
    /\ pl_ran = <<>>
    /\ pl_exit = None
    /\ pl_artifacts \in SUBSET {"matrix.mtx", "stale.log"}
    /\ canon_pc = "idle"
    /\ params_a = <<>>
    /\ params_b = <<>>
    /\ token_a = None
    /\ token_b = None
    /\ ParseIdle

\* Stage number k runs in the state `from` and ends.
RunStage(k, from) ==
    /\ pl_state = from
    /\ \E code \in ExitCodes, written \in SUBSET StageArtifacts(Stages[k]) :
         /\ code = 0 => written = StageArtifacts(Stages[k])
         /\ pl_state' = StageOutcome(k, code)
         /\ pl_exit' = IF code = 0 THEN pl_exit ELSE Some(code)
         /\ pl_artifacts' = pl_artifacts \cup written
         /\ pl_ran' = Append(pl_ran, [stage |-> Stages[k], code |-> code])

PipelineReorder ==
    /\ RunStage(1, "LOADED")
    /\ UNCHANGED <<smat_pc, smat_out, smat_outcome, smat_wall, smat_result, canonVars>>
    /\ UNCHANGED <<kernelVars, mergeVars, metricsVars>>

PipelineMetrics ==
    /\ RunStage(2, "REORDERED")
    /\ UNCHANGED <<smat_pc, smat_out, smat_outcome, smat_wall, smat_result, canonVars>>
    /\ UNCHANGED <<kernelVars, mergeVars, metricsVars>>

PipelineMultiply ==
    /\ RunStage(3, "METRICS_COMPUTED")
    /\ UNCHANGED <<smat_pc, smat_out, smat_outcome, smat_wall, smat_result, canonVars>>
    /\ UNCHANGED <<kernelVars, mergeVars, metricsVars>>

\* Every stage ended with exit code 0: the invocation reports 0.
PipelineDone ==
    /\ pl_state = "MULTIPLIED"
    /\ pl_state' = "DONE"
    /\ pl_exit' = Some(0)
    /\ UNCHANGED <<pl_ran, pl_artifacts>>
    /\ UNCHANGED <<smat_pc, smat_out, smat_outcome, smat_wall, smat_result, canonVars>>
    /\ UNCHANGED <<kernelVars, mergeVars, metricsVars>>

PipelineNext ==
    \/ PipelineReorder
    \/ PipelineMetrics
    \/ PipelineMultiply
    \/ PipelineDone

PipelineSmatIdle ==
    /\ smat_pc = "idle"
    /\ smat_out = <<>>
    /\ smat_outcome = "unset"
    /\ smat_wall = None
    /\ smat_result = None

PipelineSpecInit ==
    KernelIdle /\ PipelineSmatIdle /\ MergeIdle /\ MetricsIdle /\ PipelineInit

PipelineSpec == PipelineSpecInit /\ [][PipelineNext]_vars

(***************************************************************************)
(* Properties of the pipeline coordinator, checked under PipelineSpec.     *)
(***************************************************************************)
\* The stages that ran are the first stages of the state machine, in its
\* order, and only the last of them can have failed.
RanInOrder ==
    /\ Len(pl_ran) <= Len(Stages)
    /\ \A i \in DOMAIN pl_ran : pl_ran[i].stage = Stages[i]
    /\ \A i \in DOMAIN pl_ran : i < Len(pl_ran) => pl_ran[i].code = 0

\* The number of stages that have run in each state that is not FAILED.
StagesRunIn(state) ==
    CASE state = "LOADED" -> 0
      [] state = "REORDERED" -> 1
      [] state = "METRICS_COMPUTED" -> 2
      [] state \in {"MULTIPLIED", "DONE"} -> 3

\* The state of the invocation agrees with the stages that ran, and FAILED
\* reports the exit code of the stage that failed.
PipelineStateInv ==
    /\ RanInOrder
    /\ pl_state # "FAILED" =>
          /\ Len(pl_ran) = StagesRunIn(pl_state)
          /\ \A i \in DOMAIN pl_ran : pl_ran[i].code = 0
    /\ pl_state = "FAILED" =>
          /\ pl_ran # <<>>
          /\ pl_ran[Len(pl_ran)].code # 0
          /\ pl_exit = Some(pl_ran[Len(pl_ran)].code)
    /\ pl_state = "DONE" => pl_exit = Some(0)

\* The steps of the state machine: no state is skipped, FAILED is never
\* left and no stage runs after it, and no artifact is deleted.
PipelineStep ==
    /\ <<pl_state, pl_state'>> \in
          {<<"LOADED", "REORDERED">>, <<"REORDERED", "METRICS_COMPUTED">>,
           <<"METRICS_COMPUTED", "MULTIPLIED">>, <<"MULTIPLIED", "DONE">>,
           <<"LOADED", "FAILED">>, <<"REORDERED", "FAILED">>,
           <<"METRICS_COMPUTED", "FAILED">>}
    /\ pl_artifacts \subseteq pl_artifacts'

\* C21: one invocation moves through LOADED, REORDERED, METRICS_COMPUTED,
\* MULTIPLIED, DONE strictly in that order; a nonzero exit of a stage moves it
\* to FAILED, after which no stage runs and FAILED is never left; the
\* reported exit code is that of the failing stage and the artifacts already
\* written are not deleted.
C21_PipelineStateMachine == []PipelineStateInv /\ [][PipelineStep]_vars

\* The metrics engine failed with exit code 2 after a successful reorder
\* stage, having written one of its two artifacts; the artifacts of the
\* reorder stage are still there.
C21_Witness ==
    /\ pl_state = "FAILED"
    /\ Len(pl_ran) = 2
    /\ pl_exit = Some(2)
    /\ "bandwidth" \in pl_artifacts
    /\ "block_density" \notin pl_artifacts
    /\ "permutation.g" \in pl_artifacts

(***************************************************************************)
(* The parameter set canonicalizer.  A text is the sequence of its pieces: *)
(* a piece is a separator character ("=", "-", "_", ";") or a longest run  *)
(* of other characters, so two texts are equal exactly when their          *)
(* sequences are.  Two invocations on the same matrix with the same        *)
(* technique each canonicalize their parameter list; the token names the   *)
(* output directory.                                                       *)
(***************************************************************************)
\* The largest number of parameters of an invocation.
MaxParams == 2

\* The keys and the values of the parameters: names and numbers, and a
\* value that holds "_" and "-" itself.
ParamKeys == {<<"alpha">>, <<"beta">>}
ParamValues == {<<"1.0">>, <<"1.0", "_", "beta", "-", "1.0">>}

\* The key=value texts.
ParamTexts == {k \o <<"=">> \o v : k \in ParamKeys, v \in ParamValues}

\* Every "=" of a text replaced by "-".
ReplaceEquals(text) ==
    [i \in DOMAIN text |-> IF text[i] = "=" THEN "-" ELSE text[i]]

\* The texts of a list that is not empty, joined by a separator.
RECURSIVE Join(_, _)
Join(texts, sep) ==
    IF Len(texts) = 1 THEN texts[1]
    ELSE texts[1] \o <<sep>> \o Join(Tail(texts), sep)

\* canonicalize: the path token.
CanonToken(params) ==
    IF params = <<>> THEN <<"default">>
    ELSE Join([i \in DOMAIN params |-> ReplaceEquals(params[i])], "_")

CanonInit ==
    /\ canon_pc = "building"
    /\ params_a = <<>>
    /\ params_b = <<>>
    /\ token_a = None
    /\ token_b = None
    /\ ParseIdle

\* The caller of the first invocation supplies one more parameter.
CanonParamA ==
    /\ canon_pc = "building"
    /\ Len(params_a) < MaxParams
    /\ \E t \in ParamTexts : params_a' = Append(params_a, t)
    /\ UNCHANGED <<canon_pc, params_b, token_a, token_b, parseVars>>
    /\ UNCHANGED <<smat_pc, smat_out, smat_outcome, smat_wall, smat_result>>
    /\ UNCHANGED <<pl_state, pl_ran, pl_exit, pl_artifacts>>
    /\ UNCHANGED <<kernelVars, mergeVars, metricsVars>>

\* The caller of the second invocation supplies one more parameter.
CanonParamB ==
    /\ canon_pc = "building"
    /\ Len(params_b) < MaxParams
    /\ \E t \in ParamTexts : params_b' = Append(params_b, t)
    /\ UNCHANGED <<canon_pc, params_a, token_a, token_b, parseVars>>
    /\ UNCHANGED <<smat_pc, smat_out, smat_outcome, smat_wall, smat_result>>
    /\ UNCHANGED <<pl_state, pl_ran, pl_exit, pl_artifacts>>
    /\ UNCHANGED <<kernelVars, mergeVars, metricsVars>>

\* Both invocations canonicalize their parameter list.
Canonicalize ==
    /\ canon_pc = "building"
    /\ token_a' = Some(CanonToken(params_a))
    /\ token_b' = Some(CanonToken(params_b))
    /\ canon_pc' = "done"
    /\ UNCHANGED <<params_a, params_b, parseVars>>
    /\ UNCHANGED <<smat_pc, smat_out, smat_outcome, smat_wall, smat_result>>
    /\ UNCHANGED <<pl_state, pl_ran, pl_exit, pl_artifacts>>
    /\ UNCHANGED <<kernelVars, mergeVars, metricsVars>>

CanonNext ==
    \/ CanonParamA
    \/ CanonParamB
    \/ Canonicalize

CanonPipelineIdle ==
    /\ pl_state = "idle"
    /\ pl_ran = <<>>
    /\ pl_exit = None
    /\ pl_artifacts = {}

CanonSpecInit ==
    /\ KernelIdle /\ PipelineSmatIdle /\ MergeIdle /\ MetricsIdle
    /\ CanonPipelineIdle /\ CanonInit

CanonSpec == CanonSpecInit /\ [][CanonNext]_vars

(***************************************************************************)
(* Properties of the canonicalizer, checked under CanonSpec.               *)
(***************************************************************************)
\* C22: the path token is deterministic and collision-free: the same
\* ordered parameter list yields the same token, and two distinct ordered
\* parameter lists never yield the same token (and so never share an output
\* directory).
C22_TokenIsCollisionFree ==
    canon_pc = "done" =>
        /\ params_a = params_b => token_a = token_b
        /\ params_a # params_b => token_a # token_b

(***************************************************************************)
(* Properties of the attempts and of the output of the kernel mains,       *)
(* checked under KernelSpec.                                               *)
(***************************************************************************)
\* C23 as stated: within one run of a kernel main at most one
\* multiplication attempt is made.
C23_AtMostOneAttempt == Len(calls) <= 1

\* The last attempt of the run.
LastAttempt == attempts[Len(attempts)]

\* C23 as amended: no multiplication operation is called twice in a run; a
\* GPU-only main and main_smat make at most one attempt; a legacy main makes
\* at most its GPU attempt and, only after that attempt failed or was not
\* made, its CPU attempt; a reported timing is that of the last attempt
\* alone.
C23_NoOperationIsRetried ==
    /\ Len(calls) = Len(attempts)
    /\ \A i, j \in DOMAIN calls : calls[i] = calls[j] => i = j
    /\ kernel \notin FallbackKernels => Len(calls) <= 1
    /\ kernel \in FallbackKernels =>
          /\ Len(calls) <= 2
          /\ Len(calls) = 2 =>
                /\ calls[1] = GpuOperation(kernel, operation)
                /\ ~attempts[1].success
    /\ exit_code = Some(0) =>
          /\ attempts # <<>>
          /\ LastAttempt.success
          /\ stdout = <<[literal_zero |-> FALSE,
                         thousandths |-> Fmt3(LastAttempt.timing[1])]>>

\* A legacy main whose GPU attempt failed reported the timing of its CPU
\* attempt.
C23_Witness ==
    /\ kernel = "cusparse_spmm"
    /\ pc = "done"
    /\ Len(calls) = 2
    /\ ~attempts[1].success
    /\ exit_code = Some(0)

\* C24: in every kernel main a matrix that cannot be loaded is reported
\* immediately: the run prints TIMING_MS:0 and returns 1 before the
\* environment probe is executed and before any multiplication is attempted.
C24_UnloadableMatrixReportedFirst ==
    matrix = "None" =>
        /\ pc = "done"
        /\ stdout = <<[literal_zero |-> TRUE, thousandths |-> 0]>>
        /\ exit_code = Some(1)
        /\ smi_outcome = "unset"
        /\ nvcc_outcome = "unset"
        /\ cupy_outcome = "unset"
        /\ gpu_info \in {InitialGpuInfo, InitialSmatInfo}
        /\ calls = <<>>

\* main_smat ended on a matrix file that could not be read.
C24_Witness ==
    /\ kernel = "smat"
    /\ matrix = "None"
    /\ pc = "done"
    /\ exit_code = Some(1)

\* C25: on every path of every kernel main exactly one TIMING_MS line is
\* printed; the exit code is 0 exactly when that line carries the timing
\* returned by an operation that reported success, and every path that
\* returns 1 prints exactly TIMING_MS:0.
C25_ExactlyOneTimingLine ==
    exit_code # None =>
        /\ Len(stdout) = 1
        /\ exit_code = Some(0) <=>
              /\ attempts # <<>>
              /\ LastAttempt.success
              /\ LastAttempt.timing # None
              /\ stdout = <<[literal_zero |-> FALSE,
                             thousandths |-> Fmt3(LastAttempt.timing[1])]>>
        /\ exit_code = Some(1) => stdout = <<[literal_zero |-> TRUE, thousandths |-> 0]>>

(***************************************************************************)
(* The permuted matrix, checked under ReorderSpec.                         *)
(***************************************************************************)
\* The row or column of the input that index i of the output comes from.
PermutedFrom(i) == perm_file[1][i]

\* C26: apply_permutation with a valid 1-based permutation p of length n on
\* an n x n matrix: in mode 2D the output has an entry at (i, j) exactly when
\* the input has one at (p[i], p[j]), in mode 1D exactly when the input has
\* one at (p[i], j); in both modes the dimensions and nnz are unchanged and
\* the output file uses 1-based coordinates.
C26_PermutationApplied ==
    bw_pc = "reordered" =>
        /\ out_file # None
        /\ out_file[1].nrows = mtx.nrows
        /\ out_file[1].ncols = mtx.ncols
        /\ Len(out_file[1].entries) = Len(mtx.entries)
        /\ \A e \in Range(out_file[1].entries) :
               e[1] \in 1..mtx.nrows /\ e[2] \in 1..mtx.ncols
        /\ \A i \in 1..mtx.nrows, j \in 1..mtx.ncols :
               <<i, j>> \in Range(out_file[1].entries) <=>
                   <<PermutedFrom(i), IF rtype = "2D" THEN PermutedFrom(j) ELSE j>>
                       \in Range(mtx.entries)

(***************************************************************************)
(* The rows of the results CSV, checked under CsvSpec.                     *)
(***************************************************************************)
\* C27: starting from a one-row CSV, every application of csv_helper.main,
\* update_csv.py or update_csv_multiply.main, in any order, leaves a CSV
\* with exactly one data row.
C27_ResultsCsvHasOneRow ==
    merge_pc \in {"ready", "ran"} => Len(csv_file.rows) = 1

\* update_csv_multiply.py has run after a metrics program on the results
\* CSV of the reorder stage.
C27_Witness ==
    /\ merge_runs = 2
    /\ merge_prog = "update_csv_multiply"
    /\ merge_exit = Some(0)
    /\ "bandwidth" \in Range(csv_file.columns)
    /\ "mult_type" \in Range(csv_file.columns)
    /\ Len(csv_file.rows) = 1

(***************************************************************************)
(* The fill density along nested block sizes, checked under DensitySpec.   *)
(***************************************************************************)
\* C28: the fill density of csv_helper_scipy.block_metrics is non-increasing
\* along nested block sizes: for every matrix with distinct stored
\* coordinates and block sizes B, B' with B dividing B', the density for B'
\* is at most the density for B; and it is not constantly 1.0 for the 8x8
\* identity.
C28_FillDensityNonIncreasing ==
    (bd # None /\ bd_impl \in FillImpls) =>
        /\ \A b1 \in BlockSizes, b2 \in BlockSizes :
               b2 % b1 = 0 => FloatLeq(Densities[b2], Densities[b1])
        /\ mtx = Identity8 =>
               \E b \in BlockSizes : Densities[b] # [num |-> 1, den |-> 1]

\* block_metrics of csv_helper_scipy.py has measured the 8x8 identity:
\* 1, 1/2, 1/4, 1/8 for the blocks 1, 2, 4, 8.
C28_Witness ==
    /\ mtx = Identity8
    /\ bd_impl = "csv_helper_scipy/scipy"
    /\ bd # None
    /\ Densities[1] = [num |-> 1, den |-> 1]
    /\ Densities[2] = [num |-> 1, den |-> 2]
    /\ Densities[4] = [num |-> 1, den |-> 4]
    /\ Densities[8] = [num |-> 1, den |-> 8]

(***************************************************************************)
(* update_csv_multiply.parse_cusparse_results on the text of a results    *)
(* file.                                                                   *)
(*                                                                         *)
(* A text is the sequence of its characters.  A number that float() reads  *)
(* is kept as its digits: the digit of the model is never 0, and there is  *)
(* no sign, point or exponent, so two such numbers are equal exactly when  *)
(* their digits are.                                                       *)
(***************************************************************************)
\* The longest results file of the model, in characters.
MaxFileLen == 6

\* The characters of the results files of the model: a blank, the comma, the
\* line end, a letter and a digit.
ResultChars == {" ", ",", "\n", "k", "5"}

\* "for line in f": the lines of the file, each with its line end.
RECURSIVE FileLines(_)
FileLines(text) ==
    LET breaks == {i \in 1..Len(text) : text[i] = "\n"}
    IN  IF text = <<>> THEN <<>>
        ELSE IF breaks = {} THEN <<text>>
        ELSE LET i == CHOOSE b \in breaks : \A c \in breaks : b <= c
             IN  <<SubSeq(text, 1, i)>> \o FileLines(SubSeq(text, i + 1, Len(text)))

\* str.strip(): leading and trailing whitespace removed.
TextStrip(s) ==
    LET kept == {i \in 1..Len(s) : s[i] \notin {" ", "\n"}}
    IN  IF kept = {} THEN <<>>
        ELSE SubSeq(s, CHOOSE a \in kept : \A c \in kept : a <= c,
                       CHOOSE b \in kept : \A c \in kept : c <= b)

\* s.split(',', 1) for a text that holds a comma: the scan stops at the
\* first comma; head is the text passed so far.
RECURSIVE SplitFirstComma(_, _)
SplitFirstComma(head, s) ==
    IF Head(s) = "," THEN <<head, Tail(s)>>
    ELSE SplitFirstComma(Append(head, Head(s)), Tail(s))

\* float(value): None for a ValueError; float() strips the whitespace
\* around the number.
FloatOf(value) ==
    LET digits == TextStrip(value)
    IN  IF digits # <<>> /\ \A i \in 1..Len(digits) : digits[i] = "5"
        THEN Some(digits)
        ELSE None

\* The mutated loop: a key that is in the dictionary keeps its value.
RECURSIVE ParseResultLinesKeepsFirst(_, _)
ParseResultLinesKeepsFirst(lines, metrics) ==
    IF lines = <<>> THEN metrics
    ELSE LET line == Head(lines)
         IN  IF \E i \in 1..Len(line) : line[i] = ","
             THEN LET kv == SplitFirstComma(<<>>, TextStrip(line))
                      value == IF FloatOf(kv[2]) # None
                               THEN Num(FloatOf(kv[2])[1])
                               ELSE Str(kv[2])
                  IN  ParseResultLinesKeepsFirst(Tail(lines),
                          [k \in DOMAIN metrics \cup {kv[1]} |->
                              IF k \in DOMAIN metrics THEN metrics[k] ELSE value])
             ELSE ParseResultLinesKeepsFirst(Tail(lines), metrics)

\* "for line in f: if ',' in line: key, value = line.strip().split(',', 1)",
\* then "metrics[key] = float(value)", or "metrics[key] = value" after a
\* ValueError.
RECURSIVE ParseResultLines(_, _)
ParseResultLines(lines, metrics) ==
    IF lines = <<>> THEN metrics
    ELSE LET line == Head(lines)
         IN  IF \E i \in 1..Len(line) : line[i] = ","
             THEN LET kv == SplitFirstComma(<<>>, TextStrip(line))
                      value == IF FloatOf(kv[2]) # None
                               THEN Num(FloatOf(kv[2])[1])
                               ELSE Str(kv[2])
                  IN  ParseResultLines(Tail(lines),
                          [k \in DOMAIN metrics \cup {kv[1]} |->
                              IF k = kv[1] THEN value ELSE metrics[k]])
             ELSE ParseResultLines(Tail(lines), metrics)

\* parse_cusparse_results(results_file) on the text of the file, None for a
\* file that does not exist.
parse_cusparse_results(file) ==
    IF file = None THEN EmptyMetrics
    ELSE ParseResultLines(FileLines(file[1]), EmptyMetrics)

\* The results file does not exist, or exists and is empty.
ParseInit ==
    /\ parse_pc = "writing"
    /\ results_file \in {None, Some(<<>>)}
    /\ res_metrics = None

\* One more character is written to the results file.
ResultsFileWrite ==
    /\ parse_pc = "writing"
    /\ results_file # None
    /\ Len(results_file[1]) < MaxFileLen
    /\ \E c \in ResultChars : results_file' = Some(Append(results_file[1], c))
    /\ UNCHANGED <<parse_pc, res_metrics>>
    /\ UNCHANGED <<canon_pc, params_a, params_b, token_a, token_b>>
    /\ UNCHANGED <<smat_pc, smat_out, smat_outcome, smat_wall, smat_result>>
    /\ UNCHANGED <<pl_state, pl_ran, pl_exit, pl_artifacts>>
    /\ UNCHANGED <<kernelVars, mergeVars, metricsVars>>

\* parse_cusparse_results is called on the file.
ParseCall ==
    /\ parse_pc = "writing"
    /\ parse_pc' = "parsed"
    /\ res_metrics' = Some(parse_cusparse_results(results_file))
    /\ UNCHANGED results_file
    /\ UNCHANGED <<canon_pc, params_a, params_b, token_a, token_b>>
    /\ UNCHANGED <<smat_pc, smat_out, smat_outcome, smat_wall, smat_result>>
    /\ UNCHANGED <<pl_state, pl_ran, pl_exit, pl_artifacts>>
    /\ UNCHANGED <<kernelVars, mergeVars, metricsVars>>

ParseNext ==
    \/ ResultsFileWrite
    \/ ParseCall

ParseCanonIdle ==
    /\ canon_pc = "idle"
    /\ params_a = <<>>
    /\ params_b = <<>>
    /\ token_a = None
    /\ token_b = None

ParseSpecInit ==
    /\ KernelIdle /\ PipelineSmatIdle /\ MergeIdle /\ MetricsIdle
    /\ CanonPipelineIdle /\ ParseCanonIdle /\ ParseInit

ParseSpec == ParseSpecInit /\ [][ParseNext]_vars

(***************************************************************************)
(* Properties of parse_cusparse_results, checked under ParseSpec.         *)
(***************************************************************************)
\* The lines of the parsed file that hold a comma, in the order of the file.
CommaLines ==
    IF results_file = None THEN <<>>
    ELSE SelectSeq(FileLines(results_file[1]),
                   LAMBDA l : \E i \in 1..Len(l) : l[i] = ",")

\* The position of the first comma of a text that holds one.
FirstComma(s) ==
    CHOOSE i \in 1..Len(s) : s[i] = "," /\ \A j \in 1..(i - 1) : s[j] # ","

\* The text before, and after, the first comma.
TextBefore(s) == SubSeq(s, 1, FirstComma(s) - 1)
TextAfter(s) == SubSeq(s, FirstComma(s) + 1, Len(s))

\* A line without its line end.
Chomp(l) ==
    IF l # <<>> /\ l[Len(l)] = "\n" THEN SubSeq(l, 1, Len(l) - 1) ELSE l

\* The value of a text: the number when it parses as one, the text itself
\* otherwise.
NumberOrText(t) == IF FloatOf(t) # None THEN Num(FloatOf(t)[1]) ELSE Str(t)

\* The mapping that holds, for the texts key(l) and value(l) of the lines l
\* with a comma, an entry for every key, with the value of the last line
\* that has the key.
LastWins(Key(_), Value(_)) ==
    [k \in {Key(CommaLines[i]) : i \in DOMAIN CommaLines} |->
        LET last == CHOOSE i \in DOMAIN CommaLines :
                        /\ Key(CommaLines[i]) = k
                        /\ \A j \in DOMAIN CommaLines :
                               Key(CommaLines[j]) = k => j <= i
        IN  NumberOrText(Value(CommaLines[last]))]

\* C29, as stated: the mapping parse_cusparse_results returns has one entry
\* per line that holds a comma, the key the text of the line before its
\* first comma and the value the number after it, or the raw text after it
\* when that is no number; a later line with the same key replaces the
\* earlier one, lines without a comma are ignored, and a missing file gives
\* the empty mapping.  (The raw text is read as the code takes it, up to the
\* trailing whitespace of the line; the key is read as stated.)
C29_EntryPerCommaLineAsStated ==
    parse_pc = "parsed" =>
        res_metrics = Some(LastWins(LAMBDA l : TextBefore(Chomp(l)),
                                    LAMBDA l : TextAfter(TextStrip(l))))

\* C29, amended: the same, with key and value taken from the line after its
\* leading and trailing whitespace is removed.
C29_EntryPerStrippedCommaLine ==
    parse_pc = "parsed" =>
        /\ res_metrics = Some(LastWins(LAMBDA l : TextBefore(TextStrip(l)),
                                  LAMBDA l : TextAfter(TextStrip(l))))
        /\ results_file = None => res_metrics = Some(EmptyMetrics)

\* The file " ,5", ",k" has been parsed: the blank before the first comma
\* is no part of the key, and the second line has replaced the entry of the
\* first.
C29_Witness ==
    /\ parse_pc = "parsed"
    /\ results_file = Some(<<" ", ",", "5", "\n", ",", "k">>)
    /\ DOMAIN res_metrics[1] = {<<>>}
    /\ res_metrics[1][<<>>] = Str(<<"k">>)

(***************************************************************************)
(* The failures of update_csv_multiply.main, checked under MergeSpec.      *)
(***************************************************************************)
\* C30: update_csv_multiply.main changes the results CSV atomically with
\* respect to its own failures: after a run that failed (too few arguments,
\* an unparsable time or status, an unreadable CSV, an error while the
\* GFLOPS are derived) the CSV on disk is the CSV of before the run; the file
\* is rewritten only by a run that computed every column value.
C30_FailedRunLeavesCsv ==
    merge_pc = "ran" =>
        /\ merge_exit # Some(0) => csv_file = csv_before[1]
        /\ csv_file # csv_before[1] => merge_exit = Some(0)

\* A run on a readable one-row CSV has set the first columns in its frame
\* and then failed deriving the GFLOPS from avg_time_ms == 0.
C30_Witness ==
    /\ merge_pc = "ran"
    /\ merge_exit = Some(1)
    /\ merge_args.argc_ok
    /\ merge_args.time_ms # None
    /\ merge_args.status # None
    /\ SidecarUsed(merge_args, merge_sidecar)
    /\ LastMetrics["avg_time_ms"] = Num(0)
    /\ Len(csv_before[1].rows) = 1
    /\ csv_file = csv_before[1]

============================================================================
